---- MODULE Spec2Model ----
(***************************************************************************)
(* ASML toolchain: the virtual machine (asml_vm), and the assembler's      *)
(* parser, program builder and linker (asml/src/compiler).                 *)
(***************************************************************************)
EXTENDS Integers, Sequences, FiniteSets, TLC

VARIABLES
    \* ---- asml_vm::VM (lib.rs:38-46) and the locals of VM::run
    registers,      \* VM.registers: 10 single-byte slots
    memory,         \* VM.memory: 65536 cells, kept as the map of its non-zero cells
    pc,             \* VM.pc
    sp,             \* VM.sp
    output,         \* VM.output, a sequence of character codes
    printer,        \* VM.printer, a sequence of character codes
    debug_mode,     \* VM.debug_mode
    debug_disabled, \* local of VM::run
    fetched,        \* local of VM::run: the byte fetch_byte returned at the loop top, -1 if none
    opcode,         \* local of VM::run: the OpCode it decoded to, -1 if none
    vmState,        \* where execute_code (main.rs) is with this VM
    image,          \* the code sections execute_code was given
    steps,          \* history: iterations of run's loop begun
    portLog,        \* history: non-zero values the printer cell held after an instruction
    checked,        \* the build traps on integer overflow (debug profile) or wraps
    \* ---- compiler::parser::Parser (parser/mod.rs:38-43) and the linker
    prog,           \* Parser.prog, the Program being built, then linked
    cur_tok,        \* Parser.cur_tok
    asmState,       \* parsing; a statement's parse_err or panicked; validate's parsed,
                    \* invalid or panicked_validate; link's linked, link_err or panicked_link
    perr,           \* the constructor of the ParserError returned, "none" if none
    errmsg,         \* the format string of the message of the error returned by
                    \* parse or link, "none" if none
    lerr,           \* the label named by link's Err, << >> if none
    nstmts,         \* history: statements handled by parse's loop
    stmt,           \* history: the tokens the last statement read, its mnemonic first
    prestmt,        \* history: the Program as it was when that statement began
    prelink,        \* history: the Program as it was handed to link
    \* ---- compiler::lexer::Lexer (lexer.rs:7-13)
    source,         \* the bytes the lexer was constructed over
    reader,         \* Lexer.reader: the bytes the iterator has not handed out yet
    cur_ch,         \* Lexer.cur_ch
    peek_ch,        \* Lexer.peek_ch
    line,           \* Lexer.line
    col,            \* Lexer.col
    tokens,         \* history: the tokens next has returned, in order
    lexState,       \* idle; lexing; hung once next loops forever; panicked; dropped
    compiled,       \* what compile_file (compiler/mod.rs) returned, << >> before it has:
                    \* [res, code] with res ok, hung or panicked
    \* ---- srecord::Line (srecord/src/lib.rs:232-237)
    record          \* a Line [rec_type, address, data] and what gen_checksum made of
                    \* it: checksum (-1 before it returns) and state idle, built,
                    \* done or panicked

vmVars == <<registers, memory, pc, sp, output, printer, debug_mode,
            debug_disabled, fetched, opcode, vmState, image, steps, portLog>>

asmVars == <<prog, cur_tok, asmState, perr, errmsg, lerr, nstmts, stmt, prestmt, prelink>>

lexVars == <<source, reader, cur_ch, peek_ch, line, col, tokens, lexState, compiled>>

vars == <<vmVars, checked, asmVars, lexVars, record>>

-----------------------------------------------------------------------------
(* Bounds of the model *)

MaxInstr == 2       \* instructions before the last byte of an installed program
MaxSteps == 7       \* iterations of run's loop that are followed
MaxInst == 1        \* statements of a source over the whole token alphabet
MaxStmts == 3       \* statements of a source over the linking alphabet
MaxItems == 2       \* items of an FCB or FDB list
MaxRmb == 64        \* largest RMB count
MaxSrc == 3         \* bytes of a source enumerated over the lexer's alphabet
MaxEofs == 2        \* EOF tokens next is asked for
MaxNums == 2        \* statements of a source over the numeric literals
MaxData == 2        \* data bytes of a Line enumerated over DataBytes
MaxRun == 1         \* statements of a source that is assembled and run
MaxHere == 2        \* statements of a source that names the write cursor
MaxLineToks == 8    \* tokens of a line of source
MaxLineStmts == 2   \* statements parsed from the tokens of a line

-----------------------------------------------------------------------------
(* asml_vm/src/lib.rs: constants *)

NUM_OF_MEMORY_CELLS == 65536
NUM_OF_REGISTERS == 10
PRINTER_ADDR == NUM_OF_MEMORY_CELLS - 3
REG_A == 10
REG_B == 11
REG_C == 12
REG_D == 13

(* asml_vm/src/opcodes.rs: enum OpCode, #[repr(u8)], discriminants by position *)
NOOP == 0
ADDA == 1
ADDI == 2
ADDR == 3
ANDA == 4
ANDI == 5
ANDR == 6
ORA == 7
ORI == 8
ORR == 9
XORA == 10
XORI == 11
XORR == 12
ROTR == 13
ROTL == 14
CALLA == 15
CALLR == 16
RTN == 17
HALT == 18
JMP == 19
JMPA == 20
LDSPA == 21
LDSPI == 22
LDSPR == 23
LOADA == 24
LOADI == 25
LOADR == 26
STRA == 27
STRR == 28
XFER == 29
POP == 30
PUSH == 31
DEBUG == 32
End == 33

Byte == 0..255

\* impl From<u8> for OpCode: the enum variant (by discriminant) a byte decodes to.
\* The mutant transmutes without the check against End.
OpCodeFromUnchecked(i) == i
OpCodeFrom(i) == IF i > End THEN NOOP ELSE i

-----------------------------------------------------------------------------
(* Integer helpers *)

Wrap16(x) == x % 65536
Hi(x) == (x \div 256) % 256
Lo(x) == x % 256

RECURSIVE BitAnd(_, _)
BitAnd(a, b) ==
    IF a = 0 \/ b = 0 THEN 0
    ELSE (a % 2) * (b % 2) + 2 * BitAnd(a \div 2, b \div 2)

RECURSIVE BitOr(_, _)
BitOr(a, b) ==
    IF a = 0 THEN b ELSE IF b = 0 THEN a
    ELSE (IF a % 2 = 1 \/ b % 2 = 1 THEN 1 ELSE 0) + 2 * BitOr(a \div 2, b \div 2)

RECURSIVE BitXor(_, _)
BitXor(a, b) ==
    IF a = 0 THEN b ELSE IF b = 0 THEN a
    ELSE ((a + b) % 2) + 2 * BitXor(a \div 2, b \div 2)

\* The mutant of RotateLeft16 shifts: the bits that leave at the top are lost.
ShiftLeft16(v, n) ==
    LET k == n % 16 IN (v * (2 ^ k)) % 65536
\* u16::rotate_left / rotate_right
RotateLeft16(v, n) ==
    LET k == n % 16 IN ((v * (2 ^ k)) % 65536) + (v \div (2 ^ (16 - k)))
RotateRight16(v, n) ==
    LET k == n % 16 IN (v \div (2 ^ k)) + (((v % (2 ^ k)) * (2 ^ (16 - k))) % 65536)

\* A u16 `+`, `-`, `+=`, `-=`: a checked build panics when the exact result
\* leaves 0..65535, an unchecked build wraps.
Overflows(x) == checked /\ (x < 0 \/ x > 65535)

-----------------------------------------------------------------------------
(* The machine: the VM fields an instruction touches, with `trap` set once  *)
(* the thread has panicked.                                                *)

MemAt(mem, a) == IF a \in DOMAIN mem THEN mem[a] ELSE 0
MemSet(mem, a, v) ==
    IF v = 0 THEN [x \in (DOMAIN mem) \ {a} |-> mem[x]]
    ELSE [x \in (DOMAIN mem) \cup {a} |-> IF x = a THEN v ELSE mem[x]]

Machine == [regs |-> registers, mem |-> memory, pc |-> pc, sp |-> sp, trap |-> FALSE]
Trap(m) == [m EXCEPT !.trap = TRUE]

is_double_reg(r) == r \in REG_A..REG_D
reg_width(r) == IF is_double_reg(r) THEN 2 ELSE 1

\* Reads give [val, trap].
read_single_reg(m, r) ==
    IF r < NUM_OF_REGISTERS THEN [val |-> m.regs[r], trap |-> FALSE]
    ELSE [val |-> 0, trap |-> TRUE]           \* index out of bounds

write_single_reg(m, r, data) ==
    IF r < NUM_OF_REGISTERS THEN [m EXCEPT !.regs[r] = data] ELSE Trap(m)

\* The mutant of the slot a pair begins at puts A on slots 0 and 1.
DoubleSlotLow(r) == 2 * (r - REG_A)
DoubleSlot(r) == 2 * (r - REG_A) + 2

read_double_reg(m, r) ==
    IF is_double_reg(r)
    THEN [val |-> m.regs[DoubleSlot(r)] * 256 + m.regs[DoubleSlot(r) + 1], trap |-> FALSE]
    ELSE [val |-> 0, trap |-> FALSE]

write_double_reg(m, r, data) ==
    IF is_double_reg(r)
    THEN [m EXCEPT !.regs[DoubleSlot(r)] = Hi(data), !.regs[DoubleSlot(r) + 1] = Lo(data)]
    ELSE m

read_reg(m, r) == IF is_double_reg(r) THEN read_double_reg(m, r) ELSE read_single_reg(m, r)

write_reg(m, r, data) ==
    IF is_double_reg(r) THEN write_double_reg(m, r, data)
    ELSE write_single_reg(m, r, Lo(data))

read_mem(m, addr, width) ==
    IF width = 1 THEN [val |-> MemAt(m.mem, addr), trap |-> FALSE]
    ELSE IF width = 2
    THEN [val |-> MemAt(m.mem, addr) * 256 + MemAt(m.mem, Wrap16(addr + 1)),
          trap |-> Overflows(addr + 1)]
    ELSE [val |-> 0, trap |-> FALSE]

write_mem(m, addr, width, data) ==
    IF width = 1 THEN [m EXCEPT !.mem = MemSet(m.mem, addr, Lo(data))]
    ELSE IF width = 2
    THEN IF Overflows(addr + 1)
         THEN Trap([m EXCEPT !.mem = MemSet(m.mem, addr, Hi(data))])
         ELSE [m EXCEPT !.mem = MemSet(MemSet(m.mem, addr, Hi(data)),
                                       Wrap16(addr + 1), Lo(data))]
    ELSE m

\* fetch_byte / fetch_u16 give [m, val].
fetch_byte(m) ==
    [m   |-> IF Overflows(m.pc + 1) THEN Trap(m) ELSE [m EXCEPT !.pc = Wrap16(m.pc + 1)],
     val |-> MemAt(m.mem, m.pc)]

fetch_u16(m) ==
    LET f1 == fetch_byte(m)
        f2 == fetch_byte(f1.m)
    IN  [m |-> f2.m, val |-> f1.val * 256 + f2.val]

-----------------------------------------------------------------------------
(* Instructions (lib.rs:389-553).  Each maps a machine to a machine.        *)

inst_loadi(m, r, data) == write_reg(m, r, data)

\* The mutant of inst_loada reads one byte whatever the register's width.
inst_loada_byte(m, r, addr) ==
    LET data == read_mem(m, addr, 1)
    IN  IF data.trap THEN Trap(m) ELSE write_reg(m, r, data.val)
inst_loada(m, r, addr) ==
    LET data == read_mem(m, addr, reg_width(r))
    IN  IF data.trap THEN Trap(m) ELSE write_reg(m, r, data.val)

inst_loadr(m, dest, src) ==
    LET addr == read_reg(m, src)
    IN  IF addr.trap THEN Trap(m) ELSE inst_loada(m, dest, addr.val)

inst_stra(m, src, addr) ==
    LET data == read_reg(m, src)
    IN  IF data.trap THEN Trap(m) ELSE write_mem(m, addr, reg_width(src), data.val)

inst_strr(m, src, dest) ==
    LET addr == read_reg(m, src)
    IN  IF addr.trap THEN Trap(m) ELSE inst_stra(m, dest, addr.val)

inst_xfer(m, dest, src) ==
    LET data == read_reg(m, src)
    IN  IF data.trap THEN Trap(m) ELSE write_reg(m, dest, data.val)

\* `val $oper data` on two u16 values: [val, trap].
Oper(oper, a, b) ==
    CASE oper = "+" -> [val |-> Wrap16(a + b), trap |-> Overflows(a + b)]
      [] oper = "|" -> [val |-> BitOr(a, b), trap |-> FALSE]
      [] oper = "&" -> [val |-> BitAnd(a, b), trap |-> FALSE]
      [] oper = "^" -> [val |-> BitXor(a, b), trap |-> FALSE]

simple_instr_imm(oper, m, r, data) ==
    LET val == read_reg(m, r)
        res == Oper(oper, val.val, data)
    IN  IF val.trap \/ res.trap THEN Trap(m) ELSE write_reg(m, r, res.val)

simple_instr_addr(oper, m, r, addr) ==
    LET data == read_mem(m, addr, reg_width(r))
        val == read_reg(m, r)
        res == Oper(oper, val.val, data.val)
    IN  IF data.trap \/ val.trap \/ res.trap THEN Trap(m) ELSE write_reg(m, r, res.val)

simple_instr_reg(oper, m, dest, src) ==
    LET data1 == read_reg(m, src)
        data2 == read_reg(m, dest)
        res == Oper(oper, data1.val, data2.val)
    IN  IF data1.trap \/ data2.trap \/ res.trap THEN Trap(m) ELSE write_reg(m, dest, res.val)

inst_rotr(m, dest, places) ==
    IF is_double_reg(dest)
    THEN write_double_reg(m, dest, RotateRight16(read_double_reg(m, dest).val, places))
    ELSE m

inst_rotl(m, dest, places) ==
    IF is_double_reg(dest)
    THEN write_double_reg(m, dest, RotateLeft16(read_double_reg(m, dest).val, places))
    ELSE m

\* The mutant of inst_jmp compares the low bytes only.
inst_jmp_low(m, r, target) ==
    LET zero_reg == read_reg(m, 0)
        check_reg == read_reg(m, r)
    IN  IF check_reg.trap THEN Trap(m)
        ELSE IF check_reg.val % 256 = zero_reg.val THEN [m EXCEPT !.pc = target] ELSE m
inst_jmp(m, r, target) ==
    LET zero_reg == read_reg(m, 0)
        check_reg == read_reg(m, r)
    IN  IF check_reg.trap THEN Trap(m)
        ELSE IF check_reg.val = zero_reg.val THEN [m EXCEPT !.pc = target] ELSE m

inst_jmpa(m, target) == [m EXCEPT !.pc = target]

inst_ldspi(m, addr) == [m EXCEPT !.sp = addr]

inst_ldspa(m, addr) ==
    LET sp_val == read_mem(m, addr, 2)
    IN  IF sp_val.trap THEN Trap(m) ELSE [m EXCEPT !.sp = sp_val.val]

inst_ldspr(m, r) ==
    LET sp_val == read_reg(m, r)
    IN  IF sp_val.trap THEN Trap(m) ELSE [m EXCEPT !.sp = sp_val.val]

\* The mutant of push_u16 writes at the old SP and decrements afterwards.
push_u16_late(m, data) ==
    IF Overflows(m.sp - 2) THEN Trap(m)
    ELSE write_mem([m EXCEPT !.sp = Wrap16(m.sp - 2)], m.sp, 2, data)
push_u16(m, data) ==
    IF Overflows(m.sp - 2) THEN Trap(m)
    ELSE write_mem([m EXCEPT !.sp = Wrap16(m.sp - 2)], Wrap16(m.sp - 2), 2, data)

push_u8(m, data) ==
    IF Overflows(m.sp - 1) THEN Trap(m)
    ELSE write_mem([m EXCEPT !.sp = Wrap16(m.sp - 1)], Wrap16(m.sp - 1), 1, data)

\* pops give [m, val].
pop_u16(m) ==
    LET data == read_mem(m, m.sp, 2)
    IN  [m   |-> IF data.trap \/ Overflows(m.sp + 2) THEN Trap(m)
                 ELSE [m EXCEPT !.sp = Wrap16(m.sp + 2)],
         val |-> data.val]

pop_u8(m) ==
    LET data == read_mem(m, m.sp, 1)
    IN  [m   |-> IF Overflows(m.sp + 1) THEN Trap(m)
                 ELSE [m EXCEPT !.sp = Wrap16(m.sp + 1)],
         val |-> data.val]

inst_push(m, r) ==
    IF is_double_reg(r) THEN push_u16(m, read_double_reg(m, r).val)
    ELSE LET val == read_single_reg(m, r)
         IN  IF val.trap THEN Trap(m) ELSE push_u8(m, val.val)

inst_pop(m, r) ==
    IF is_double_reg(r)
    THEN LET p == pop_u16(m) IN IF p.m.trap THEN p.m ELSE write_double_reg(p.m, r, p.val)
    ELSE LET p == pop_u8(m) IN IF p.m.trap THEN p.m ELSE write_single_reg(p.m, r, p.val)

inst_calla(m, addr) ==
    LET m1 == push_u16(m, m.pc) IN [m1 EXCEPT !.pc = addr]

inst_callr(m, r) ==
    LET m1 == push_u16(m, m.pc)
        new_pc == read_reg(m1, r)
    IN  IF new_pc.trap THEN Trap(m1) ELSE [m1 EXCEPT !.pc = new_pc.val]

inst_rtn(m) ==
    LET p == pop_u16(m) IN IF p.m.trap THEN p.m ELSE [p.m EXCEPT !.pc = p.val]

-----------------------------------------------------------------------------
(* VM::run (lib.rs:155-294)                                                 *)

\* instruction!($inst, u8, u16) and the other operand shapes: [m, a1, a2].
ArgsU8(m) == LET a == fetch_byte(m) IN [m |-> a.m, a1 |-> a.val, a2 |-> 0]
ArgsU16(m) == LET a == fetch_u16(m) IN [m |-> a.m, a1 |-> a.val, a2 |-> 0]
ArgsU8U8(m) ==
    LET a == fetch_byte(m)
        b == fetch_byte(a.m)
    IN  [m |-> b.m, a1 |-> a.val, a2 |-> b.val]
\* The mutant of the (u8, u16) shape fetches one byte for the second operand.
ArgsU8U16Short(m) ==
    LET a == fetch_byte(m)
        b == fetch_byte(a.m)
    IN  [m |-> b.m, a1 |-> a.val, a2 |-> b.val]
ArgsU8U16(m) ==
    LET a == fetch_byte(m)
        b == fetch_u16(a.m)
    IN  [m |-> b.m, a1 |-> a.val, a2 |-> b.val]

Next1(m) == [m |-> m, ctl |-> "next"]

\* The `_ =>` arm of `match opcode` (lib.rs:283); the mutant treats it as a no-op.
DefaultArmSkip(m) == [m |-> m, ctl |-> "next"]
DefaultArm(m) == [m |-> m, ctl |-> "fault"]

\* The HALT arm (lib.rs:264).
HaltArm(m) == [m |-> m, ctl |-> "halt"]

\* `match opcode` (lib.rs:232-284): [m, ctl], ctl one of next, halt, fault, debug.
Dispatch(m, op) ==
    LET x816 == ArgsU8U16(m)
        x88 == ArgsU8U8(m)
        x8 == ArgsU8(m)
        x16 == ArgsU16(m)
        Go(x, res) == Next1(IF x.m.trap THEN x.m ELSE res)
    IN  CASE op = LOADI -> Go(x816, inst_loadi(x816.m, x816.a1, x816.a2))
          [] op = LOADA -> Go(x816, inst_loada(x816.m, x816.a1, x816.a2))
          [] op = LOADR -> Go(x88, inst_loadr(x88.m, x88.a1, x88.a2))
          [] op = STRA -> Go(x816, inst_stra(x816.m, x816.a1, x816.a2))
          [] op = STRR -> Go(x88, inst_strr(x88.m, x88.a1, x88.a2))
          [] op = XFER -> Go(x88, inst_xfer(x88.m, x88.a1, x88.a2))
          [] op = ADDI -> Go(x816, simple_instr_imm("+", x816.m, x816.a1, x816.a2))
          [] op = ADDA -> Go(x816, simple_instr_addr("+", x816.m, x816.a1, x816.a2))
          [] op = ADDR -> Go(x88, simple_instr_reg("+", x88.m, x88.a1, x88.a2))
          [] op = ORI -> Go(x816, simple_instr_imm("|", x816.m, x816.a1, x816.a2))
          [] op = ORA -> Go(x816, simple_instr_addr("|", x816.m, x816.a1, x816.a2))
          [] op = ORR -> Go(x88, simple_instr_reg("|", x88.m, x88.a1, x88.a2))
          [] op = ANDI -> Go(x816, simple_instr_imm("&", x816.m, x816.a1, x816.a2))
          [] op = ANDA -> Go(x816, simple_instr_addr("&", x816.m, x816.a1, x816.a2))
          [] op = ANDR -> Go(x88, simple_instr_reg("&", x88.m, x88.a1, x88.a2))
          [] op = XORI -> Go(x816, simple_instr_imm("^", x816.m, x816.a1, x816.a2))
          [] op = XORA -> Go(x816, simple_instr_addr("^", x816.m, x816.a1, x816.a2))
          [] op = XORR -> Go(x88, simple_instr_reg("^", x88.m, x88.a1, x88.a2))
          [] op = ROTR -> Go(x88, inst_rotr(x88.m, x88.a1, x88.a2))
          [] op = ROTL -> Go(x88, inst_rotl(x88.m, x88.a1, x88.a2))
          [] op = JMP -> Go(x816, inst_jmp(x816.m, x816.a1, x816.a2))
          [] op = JMPA -> Go(x16, inst_jmpa(x16.m, x16.a1))
          [] op = HALT -> HaltArm(m)
          [] op = LDSPI -> Go(x16, inst_ldspi(x16.m, x16.a1))
          [] op = LDSPA -> Go(x16, inst_ldspa(x16.m, x16.a1))
          [] op = LDSPR -> Go(x8, inst_ldspr(x8.m, x8.a1))
          [] op = PUSH -> Go(x8, inst_push(x8.m, x8.a1))
          [] op = POP -> Go(x8, inst_pop(x8.m, x8.a1))
          [] op = CALLA -> Go(x16, inst_calla(x16.m, x16.a1))
          [] op = CALLR -> Go(x8, inst_callr(x8.m, x8.a1))
          [] op = RTN -> Next1(inst_rtn(m))
          [] op = DEBUG -> [m |-> m, ctl |-> "debug"]
          [] OTHER -> DefaultArm(m)

\* What the operator's commands at the `Debug>` prompt (lib.rs:189-230) amount to
\* before the loop is left: debug_disabled as last set, and step, continue or exit.
Console == [dis : BOOLEAN, how : {"step", "continue", "exit"}]

\* The printer check that ends an iteration (lib.rs:286-289): [mem, printer].
DrainKeep(mem, buf) ==
    IF MemAt(mem, PRINTER_ADDR) > 0
    THEN [mem |-> mem, printer |-> Append(buf, MemAt(mem, PRINTER_ADDR))]
    ELSE [mem |-> mem, printer |-> buf]
Drain(mem, buf) ==
    IF MemAt(mem, PRINTER_ADDR) > 0
    THEN [mem |-> MemSet(mem, PRINTER_ADDR, 0),
          printer |-> Append(buf, MemAt(mem, PRINTER_ADDR))]
    ELSE [mem |-> mem, printer |-> buf]

\* What `return Err(..)` leaves in VM.output (lib.rs:283); the mutant releases
\* the printer buffer on a fault as well.
FaultOutputFlush(out, buf) == out \o buf
FaultOutput(out, buf) == out

\* install_code's copy of one section from its byte i on (lib.rs:94-98): [mem, trap].
RECURSIVE InstallSection(_, _, _, _)
InstallSection(mem, org, code, i) ==
    IF i > Len(code) THEN [mem |-> mem, trap |-> FALSE]
    ELSE IF Overflows((i - 1) + org) THEN [mem |-> mem, trap |-> TRUE]
    ELSE InstallSection(MemSet(mem, Wrap16((i - 1) + org), code[i]), org, code, i + 1)

RECURSIVE InstallSections(_, _, _)
InstallSections(mem, code, k) ==
    IF k > Len(code) THEN [mem |-> mem, trap |-> FALSE]
    ELSE LET r == InstallSection(mem, code[k].org, code[k].code, 1)
         IN  IF r.trap THEN r ELSE InstallSections(r.mem, code, k + 1)

\* The mutant of ResetVector reads the vector low byte first.
ResetVectorLE(mem) == MemAt(mem, 65535) * 256 + MemAt(mem, 65534)
\* VM::reset (lib.rs:104-106)
ResetVector(mem) == MemAt(mem, 65534) * 256 + MemAt(mem, 65535)

-----------------------------------------------------------------------------
(* Literals are sequences of one-character strings.                         *)

\* char::to_digit(16) of the characters that are hexadecimal digits.
HexDigit ==
    [c \in {"0", "1", "2", "3", "4", "5", "6", "7", "8", "9"} |->
        CASE c = "0" -> 0 [] c = "1" -> 1 [] c = "2" -> 2 [] c = "3" -> 3 [] c = "4" -> 4
          [] c = "5" -> 5 [] c = "6" -> 6 [] c = "7" -> 7 [] c = "8" -> 8 [] c = "9" -> 9]
    @@ [c \in {"a", "b", "c", "d", "e", "f"} |->
        CASE c = "a" -> 10 [] c = "b" -> 11 [] c = "c" -> 12 [] c = "d" -> 13
          [] c = "e" -> 14 [] c = "f" -> 15]
    @@ [c \in {"A", "B", "C", "D", "E", "F"} |->
        CASE c = "A" -> 10 [] c = "B" -> 11 [] c = "C" -> 12 [] c = "D" -> 13
          [] c = "E" -> 14 [] c = "F" -> 15]

\* char::to_digit(radix): the digit's value, -1 if c is no digit of the radix.
DigitVal(c, radix) ==
    IF c \in DOMAIN HexDigit /\ HexDigit[c] < radix THEN HexDigit[c] ELSE -1

\* The digits of an integer literal, most significant first: the value, -1 when
\* there is no digit, a character is no digit, or the value exceeds max.
DigitsValue(s, radix, max) ==
    LET acc[i \in 0..Len(s)] ==
            IF i = 0 THEN 0
            ELSE IF acc[i - 1] < 0 \/ DigitVal(s[i], radix) < 0 THEN -1
            ELSE IF acc[i - 1] * radix + DigitVal(s[i], radix) > max THEN -1
            ELSE acc[i - 1] * radix + DigitVal(s[i], radix)
    IN  IF s = << >> THEN -1 ELSE acc[Len(s)]

Parsed(v) == [ok |-> v >= 0, val |-> IF v >= 0 THEN v ELSE 0]

\* u16::from_str_radix, u8::from_str_radix, str::parse::<u16>: [ok, val].
\* An unsigned type takes an optional leading "+" and at least one digit.
FromStrRadix(s, radix, max) ==
    Parsed(DigitsValue(IF s # << >> /\ Head(s) = "+" THEN Tail(s) ELSE s, radix, max))

Signed(neg, v) == [ok |-> v >= 0, val |-> IF v < 0 THEN 0 ELSE IF neg THEN 0 - v ELSE v]

\* str::parse::<i16>: an optional sign, decimal digits, -32768..32767.
ParseI16(s) ==
    IF s # << >> /\ Head(s) = "-" THEN Signed(TRUE, DigitsValue(Tail(s), 10, 32768))
    ELSE Signed(FALSE, DigitsValue(IF s # << >> /\ Head(s) = "+" THEN Tail(s) ELSE s,
                                   10, 32767))

StartsWith(s, pre) == Len(s) >= Len(pre) /\ SubSeq(s, 1, Len(pre)) = pre

RECURSIVE TrimStartMatches(_, _)
TrimStartMatches(s, pre) ==
    IF StartsWith(s, pre) THEN TrimStartMatches(SubSeq(s, Len(pre) + 1, Len(s)), pre)
    ELSE s

\* parse_u16 (parser/mod.rs:326-343): [ok, val]
parse_u16(s) ==
    CASE StartsWith(s, <<"!">>) -> FromStrRadix(TrimStartMatches(s, <<"!">>), 16, 65535)
      [] StartsWith(s, <<"0", "x">>) ->
            FromStrRadix(TrimStartMatches(s, <<"0", "x">>), 16, 65535)
      [] OTHER -> FromStrRadix(s, 10, 65535)

\* parse_register_lit (parser/mod.rs:345-350): [ok, val]
parse_register_lit(s) == FromStrRadix(TrimStartMatches(s, <<"0", "x">>), 16, 255)

\* str::find(c): the 0-based index of the first c, none as -1.
Find(s, c) ==
    IF \E i \in 1..Len(s) : s[i] = c
    THEN (CHOOSE i \in 1..Len(s) : s[i] = c /\ \A j \in 1..(i - 1) : s[j] # c) - 1
    ELSE -1

\* i16 as u16
AsU16(k) == IF k < 0 THEN k + 65536 ELSE k

\* The bytes of the characters a STRING token of the model can hold.
Ord(c) == CASE c = "A" -> 65 [] c = "B" -> 66 [] c = "C" -> 67 [] OTHER -> 63
AsBytes(s) == [i \in 1..Len(s) |-> Ord(s[i])]

-----------------------------------------------------------------------------
(* Program (parser/program.rs).  A program is [parts, part_i, labels]; a    *)
(* part is [bytes, start_pc, pc, link_map]; part_i counts from 1.           *)

EmptyMap == [x \in {} |-> 0]
MapPut(f, k, v) == [x \in (DOMAIN f) \cup {k} |-> IF x = k THEN v ELSE f[x]]

CodePartNew(at) == [bytes |-> << >>, start_pc |-> at, pc |-> at, link_map |-> EmptyMap]

ProgramNew == [parts |-> <<CodePartNew(0)>>, part_i |-> 1, labels |-> EmptyMap]

prog_pc(p) == p.parts[p.part_i].pc

append_code(p, b) ==
    [p EXCEPT !.parts[p.part_i].bytes = @ \o b,
              !.parts[p.part_i].pc = Wrap16(@ + (Len(b) % 65536))]

\* The mutant of add_label keeps the address of a name that is already declared.
add_label_keep(p, name) ==
    IF name \in DOMAIN p.labels THEN p ELSE [p EXCEPT !.labels = MapPut(@, name, prog_pc(p))]
add_label(p, name) == [p EXCEPT !.labels = MapPut(@, name, prog_pc(p))]

\* Program::add_link (program.rs:63-72) with rel = pc() - start_pc and key =
\* rel + pc_offset: [prog, trap].
LinkAt(p, rel, key, ref) ==
    IF Overflows(rel) \/ Overflows(key) THEN [prog |-> p, trap |-> TRUE]
    ELSE [prog |-> [p EXCEPT !.parts[p.part_i].link_map = MapPut(@, Wrap16(key), ref)],
          trap |-> FALSE]

add_link(p, pc_offset, name, offset) ==
    LinkAt(p, prog_pc(p) - p.parts[p.part_i].start_pc,
           Wrap16(prog_pc(p) - p.parts[p.part_i].start_pc) + pc_offset,
           [label |-> name, offset |-> offset])

\* The mutant of add_code_part opens the region and leaves the old one active.
add_code_part_stay(p, at) ==
    [p EXCEPT !.parts = Append(@, CodePartNew(at))]
add_code_part(p, at) ==
    [p EXCEPT !.parts = Append(@, CodePartNew(at)), !.part_i = @ + 1]

\* sort_by_key(|p| p.start_pc), a stable sort: insertion sort.
RECURSIVE InsertPart(_, _)
InsertPart(sorted, part) ==
    IF sorted = << >> THEN <<part>>
    ELSE IF part.start_pc < Head(sorted).start_pc THEN <<part>> \o sorted
    ELSE <<Head(sorted)>> \o InsertPart(Tail(sorted), part)

RECURSIVE SortParts(_)
SortParts(parts) ==
    IF parts = << >> THEN << >>
    ELSE InsertPart(SortParts(SubSeq(parts, 1, Len(parts) - 1)), parts[Len(parts)])

\* The loop of validate from region i on: "ok", "err" or "panic".
RECURSIVE ValidateFrom(_, _)
ValidateFrom(parts, i) ==
    IF i >= Len(parts) THEN "ok"
    ELSE LET upto == parts[i].start_pc + (Len(parts[i].bytes) % 65536)
         IN  IF Overflows(upto) THEN "panic"
             ELSE IF Wrap16(upto) > parts[i + 1].start_pc THEN "err"
             ELSE ValidateFrom(parts, i + 1)

\* Program::validate (program.rs:94-115): [prog, res]
validate(p) ==
    LET sorted == SortParts(p.parts)
    IN  [prog |-> [p EXCEPT !.parts = sorted], res |-> ValidateFrom(sorted, 1)]

\* Program::to_code (program.rs:79-92)
to_code(p) == [i \in 1..Len(p.parts) |->
                  [org |-> p.parts[i].start_pc, code |-> p.parts[i].bytes]]

-----------------------------------------------------------------------------
(* link (linker.rs:3-21)                                                    *)

\* Patching one part's buffer with its pending links taken in the order `keys`:
\* [bytes, res, label], res one of ok, err, panic.
RECURSIVE LinkPart(_, _, _, _)
LinkPart(bytes, link_map, labels, keys) ==
    IF keys = << >> THEN [bytes |-> bytes, res |-> "ok", label |-> << >>]
    ELSE LET loc == Head(keys)
             ref == link_map[loc]
             sum == labels[ref.label] + AsU16(ref.offset)
             newloc == Wrap16(sum)
         IN  IF ref.label \notin DOMAIN labels
             THEN [bytes |-> bytes, res |-> "err", label |-> ref.label]
             ELSE IF Overflows(sum) \/ loc + 1 > Len(bytes)
             THEN [bytes |-> bytes, res |-> "panic", label |-> << >>]
             ELSE IF loc + 2 > Len(bytes)
             THEN [bytes |-> [bytes EXCEPT ![loc + 1] = Hi(newloc)],
                   res |-> "panic", label |-> << >>]
             ELSE LinkPart([bytes EXCEPT ![loc + 1] = Hi(newloc), ![loc + 2] = Lo(newloc)],
                           link_map, labels, Tail(keys))

\* The orders in which a HashMap of these keys can be iterated.
RECURSIVE Orders(_)
Orders(keys) ==
    IF keys = {} THEN {<< >>}
    ELSE UNION {{<<k>> \o o : o \in Orders(keys \ {k})} : k \in keys}

-----------------------------------------------------------------------------
(* What execute_code (main.rs:127-134) does with a VM: new, install_code,   *)
(* run; the compiled image is its input.                                    *)

Instrs ==
    { <<LOADI, 1, 0, 65>>,          \* LOAD %1 #0x41
      <<STRA, 1, 255, 253>>,        \* STR  %1 0xFFFD
      <<LOADI, 10, 65, 66>>,        \* LOAD %A #0x4142
      <<STRA, 10, 255, 252>>,       \* STR  %A 0xFFFC
      <<DEBUG>>,
      <<JMPA, 0, 0>> }

RECURSIVE Prefixes(_)
Prefixes(n) ==
    IF n = 0 THEN {<< >>}
    ELSE Prefixes(n - 1) \cup {p \o i : p \in Prefixes(n - 1), i \in Instrs}

Terminators == {HALT, NOOP, End, End + 1, 255}

Programs ==
    {p \o <<t>> : p \in Prefixes(MaxInstr), t \in Terminators}
        \cup {<<b>> : b \in Byte} \cup {<<DEBUG, b>> : b \in Byte}

Tails ==
    { << >>,
      <<[org |-> 65534, code |-> <<255, 255>>]>>,     \* reset vector 0xFFFF
      <<[org |-> 65533, code |-> <<66>>]>>,           \* printer cell preset
      <<[org |-> 65535, code |-> <<0, 8, HALT>>]>> }  \* runs past 0xFFFF; vector 0x0000

\* The two operand bytes of a 16-bit operand, high byte first.
Imm(v) == <<Hi(v), Lo(v)>>

\* LDSP #s; LOAD %x #v; PUSH %x; POP %y; HALT
PushPop(s, x, y, v) ==
    <<LDSPI>> \o Imm(s) \o <<LOADI, x>> \o Imm(v) \o <<PUSH, x, POP, y, HALT>>

\* LDSP #s; LOAD %A #v; PUSH %A; PUSH %x; POP %y; POP %B; HALT
PushPop2(s, x, y, v) ==
    <<LDSPI>> \o Imm(s) \o <<LOADI, REG_A>> \o Imm(v)
        \o <<PUSH, REG_A, PUSH, x, POP, y, POP, REG_B, HALT>>

StackTops == {256, 65535, 65534, 1, 0}

StackPrograms ==
    {PushPop(s, x, y, v) : s \in StackTops, x \in {1, 3, REG_A, REG_D},
                           y \in {1, 3, REG_A, REG_D}, v \in {16706, 255}}
        \cup {PushPop2(s, x, y, 16706) : s \in StackTops, x \in {2, REG_A},
                                         y \in {1, REG_C}}

\* CALL 4; HALT; RTN, run with the SP a fresh VM has
CallReturn0 == <<CALLA, 0, 4, HALT, RTN>>

\* LDSP #s; CALL 7; HALT; RTN
CallReturn(s) == <<LDSPI>> \o Imm(s) \o <<CALLA, 0, 7, HALT, RTN>>

\* LDSP #s; LOAD %A #10; CALL %A; HALT; RTN
CallRegister(s) == <<LDSPI>> \o Imm(s) \o <<LOADI, REG_A, 0, 10, CALLR, REG_A, HALT, RTN>>

\* LDSP #s; CALL 7; HALT; (7:) CALL 11; RTN; (11:) RTN
CallNested(s) == <<LDSPI>> \o Imm(s) \o <<CALLA, 0, 7, HALT, CALLA, 0, 11, RTN, RTN>>

CallPrograms ==
    {CallReturn0} \cup {CallReturn(s) : s \in StackTops}
        \cup {CallRegister(s) : s \in StackTops} \cup {CallNested(s) : s \in StackTops}

\* LOAD %r #v; STR %r a; LOAD %r a; HALT
StoreLoad(r, v, a) ==
    <<LOADI, r>> \o Imm(v) \o <<STRA, r>> \o Imm(a) \o <<LOADA, r>> \o Imm(a) \o <<HALT>>

\* LOAD %r #v; LOAD %s #a; STR %r %s; LOAD %r %s; HALT
StoreLoadReg(r, s, v, a) ==
    <<LOADI, r>> \o Imm(v) \o <<LOADI, s>> \o Imm(a) \o <<STRR, r, s, LOADR, r, s, HALT>>

StorePrograms ==
    {StoreLoad(r, v, a) : r \in {1, REG_A}, v \in {16706, 255}, a \in {128, 512}}
        \cup {StoreLoadReg(r, s, v, 128) : r \in {1, REG_A}, s \in {3, REG_B}, v \in {16706, 255}}

\* LOAD %d #x; ADD %d #y; HALT
AddImmediate(d, x, y) == <<LOADI, d>> \o Imm(x) \o <<ADDI, d>> \o Imm(y) \o <<HALT>>

\* LOAD %d #x; ADD %d a; HALT
AddAddress(d, x, a) == <<LOADI, d>> \o Imm(x) \o <<ADDA, d>> \o Imm(a) \o <<HALT>>

\* LOAD %d #x; LOAD %s #y; ADD %d %s; HALT
AddRegister(d, s, x, y) ==
    <<LOADI, d>> \o Imm(x) \o <<LOADI, s>> \o Imm(y) \o <<ADDR, d, s, HALT>>

AddPrograms ==
    {AddImmediate(d, x, y) : d \in {1, REG_A}, x \in {65535, 5}, y \in {1, 257}}
        \cup {AddAddress(d, x, 0) : d \in {1, REG_A}, x \in {65535, 5}}
        \cup {AddRegister(d, s, x, y) : d \in {1, REG_A}, s \in {5, REG_C},
                                        x \in {65535, 5}, y \in {1, 257}}

\* LOAD %A #0x4142; STR %A 0xFFFF; LOAD %B 0xFFFF; HALT
WordAtTop == <<LOADI, REG_A, 65, 66, STRA, REG_A, 255, 255, LOADA, REG_B, 255, 255, HALT>>

\* LOAD %0 #z; LOAD %r #v; JMP %r 13; HALT; (13:) HALT
JumpIf(r, z, v) ==
    <<LOADI, 0>> \o Imm(z) \o <<LOADI, r>> \o Imm(v) \o <<JMP, r, 0, 13, HALT, HALT>>

\* JMPA 4; HALT; (4:) HALT
JumpAlways == <<JMPA, 0, 4, HALT, HALT>>

JumpPrograms ==
    {JumpIf(r, z, v) : r \in {0, 1, REG_A}, z \in {0, 5}, v \in {0, 5, 261}}
        \cup {JumpAlways}

\* LOAD %x #v; ROTL %x n; HALT
RotateLeft(x, v, n) == <<LOADI, x>> \o Imm(v) \o <<ROTL, x, n, HALT>>

\* LOAD %x #v; ROTR %x n; HALT
RotateRight(x, v, n) == <<LOADI, x>> \o Imm(v) \o <<ROTR, x, n, HALT>>

\* LOAD %x #v; ROTL %x n; ROTR %x n; HALT
RotateBack(x, v, n) == <<LOADI, x>> \o Imm(v) \o <<ROTL, x, n, ROTR, x, n, HALT>>

Places == 0 .. 255
RotatedValues == {32769, 4660}      \* 0x8001, 0x1234
RotatedRegs == {REG_A, 1, 9}

RotatePrograms ==
    UNION {{RotateLeft(x, v, n), RotateRight(x, v, n), RotateBack(x, v, n)} :
              x \in RotatedRegs, v \in RotatedValues, n \in Places}

Workloads ==
    StackPrograms \cup CallPrograms \cup StorePrograms \cup AddPrograms \cup {WordAtTop}
        \cup JumpPrograms \cup RotatePrograms

\* Sections that lie over one another, in every order of two or three.
OverlaidSections ==
    { [org |-> 0, code |-> <<LOADI, 1, 0, 65, HALT>>],
      [org |-> 1, code |-> <<2, 0, 66>>],
      [org |-> 3, code |-> <<0, 0, NOOP, HALT>>],
      [org |-> 65534, code |-> <<0, 4>>],
      [org |-> 65533, code |-> <<66, 0>>] }

Overlaid ==
    {<<a, b>> : a \in OverlaidSections, b \in OverlaidSections}
        \cup {<<a, b, c>> : a \in OverlaidSections, b \in OverlaidSections,
                             c \in OverlaidSections}

Images ==
    {<<[org |-> 0, code |-> p]>> \o t : p \in Programs, t \in Tails}
        \cup {<<[org |-> 0, code |-> p]>> : p \in Workloads}
        \cup Overlaid

VMInit ==
    /\ registers = [i \in 0..(NUM_OF_REGISTERS - 1) |-> 0]
    /\ memory = [a \in {} |-> 0]
    /\ pc = 0
    /\ sp = 0
    /\ output = << >>
    /\ printer = << >>
    /\ debug_mode = FALSE
    /\ debug_disabled = FALSE
    /\ fetched = -1
    /\ opcode = -1
    /\ vmState = "new"
    /\ image = << >>
    /\ steps = 0
    /\ portLog = << >>

\* vm.install_code(code) (lib.rs:90-102)
InstallCode ==
    /\ vmState = "new"
    /\ \E code \in Images :
         LET r == InstallSections(memory, code, 1)
         IN  /\ image' = code
             /\ IF r.trap
                THEN /\ vmState' = "panicked"
                     /\ UNCHANGED <<memory, pc>>
                ELSE /\ vmState' = "loaded"
                     /\ memory' = r.mem
                     /\ pc' = ResetVector(r.mem)
    /\ UNCHANGED <<registers, sp, output, printer, debug_mode, debug_disabled,
                   fetched, opcode, steps, portLog, checked, asmVars, lexVars, record>>

\* execute_code installs the sections of an assembled program (main.rs:127-129,
\* lib.rs:90-102).
InstallLinked ==
    /\ vmState = "new"
    /\ asmState = "linked"
    /\ image' = to_code(prog)
    /\ IF InstallSections(memory, to_code(prog), 1).trap
       THEN /\ vmState' = "panicked"
            /\ UNCHANGED <<memory, pc>>
       ELSE /\ vmState' = "loaded"
            /\ memory' = InstallSections(memory, to_code(prog), 1).mem
            /\ pc' = ResetVector(InstallSections(memory, to_code(prog), 1).mem)
    /\ UNCHANGED <<registers, sp, output, printer, debug_mode, debug_disabled,
                   fetched, opcode, steps, portLog, checked, asmVars, lexVars, record>>

\* vm.run() is entered (lib.rs:155-184)
RunEnter ==
    /\ vmState = "loaded"
    /\ vmState' = "running"
    /\ debug_disabled' = FALSE
    /\ UNCHANGED <<registers, memory, pc, sp, output, printer, debug_mode,
                   fetched, opcode, image, steps, portLog, checked, asmVars, lexVars, record>>

\* One iteration of run's loop (lib.rs:186-290), with the flush and return that
\* follow it when it is the last (lib.rs:292-293).
RunStep ==
    /\ vmState = "running"
    /\ steps < MaxSteps
    /\ steps' = steps + 1
    /\ \E con \in Console :
         LET f == fetch_byte(Machine)
             op == OpCodeFrom(f.val)
             dd1 == IF debug_mode THEN con.dis ELSE debug_disabled
             dm1 == IF debug_mode THEN con.how = "step" ELSE FALSE
             d == Dispatch(f.m, op)
             dr == Drain(d.m.mem, printer)
             held == MemAt(d.m.mem, PRINTER_ADDR)
         IN  IF f.m.trap
             THEN /\ vmState' = "panicked"
                  /\ fetched' = -1
                  /\ opcode' = -1
                  /\ UNCHANGED <<registers, memory, pc, sp, output, printer,
                                 debug_mode, debug_disabled, portLog>>
             ELSE IF debug_mode /\ con.how = "exit"
             THEN /\ vmState' = "exited"
                  /\ fetched' = f.val
                  /\ opcode' = op
                  /\ pc' = f.m.pc
                  /\ debug_disabled' = dd1
                  /\ UNCHANGED <<registers, memory, sp, output, printer,
                                 debug_mode, portLog>>
             ELSE IF d.m.trap
             THEN /\ vmState' = "panicked"
                  /\ fetched' = f.val
                  /\ opcode' = op
                  /\ debug_disabled' = dd1
                  /\ debug_mode' = dm1
                  /\ UNCHANGED <<registers, memory, pc, sp, output, printer, portLog>>
             ELSE /\ fetched' = f.val
                  /\ opcode' = op
                  /\ debug_disabled' = dd1
                  /\ registers' = d.m.regs
                  /\ pc' = d.m.pc
                  /\ sp' = d.m.sp
                  /\ CASE d.ctl = "halt" ->
                            /\ vmState' = "halted"
                            /\ output' = output \o printer
                            /\ debug_mode' = dm1
                            /\ memory' = d.m.mem
                            /\ UNCHANGED <<printer, portLog>>
                       [] d.ctl = "fault" ->
                            /\ vmState' = "faulted"
                            /\ output' = FaultOutput(output, printer)
                            /\ debug_mode' = dm1
                            /\ memory' = d.m.mem
                            /\ UNCHANGED <<printer, portLog>>
                       [] OTHER ->
                            /\ vmState' = "running"
                            /\ debug_mode' = IF d.ctl = "debug" /\ ~dd1 THEN TRUE ELSE dm1
                            /\ memory' = dr.mem
                            /\ printer' = dr.printer
                            /\ portLog' = IF held # 0 THEN Append(portLog, held) ELSE portLog
                            /\ UNCHANGED output
    /\ UNCHANGED <<image, checked, asmVars, lexVars, record>>

-----------------------------------------------------------------------------
(* Tokens (token.rs:126-131): [name, literal].                              *)

Tok(n, l) == [name |-> n, literal |-> l]
EofTok == Tok("EOF", << >>)

Mnemonics ==
    {"NOOP", "LOAD", "STR", "XFER", "ADD", "OR", "AND", "XOR", "ROTR", "ROTL",
     "JMP", "HALT", "JMPA", "LDSP", "PUSH", "POP", "CALL", "RTN", "RMB", "ORG",
     "FCB", "FDB", "DEBUG"}

Foo == <<"f", "o", "o">>
Bar == <<"b", "a", "r">>

\* The mnemonics of the instructions (mod.rs:68-99).
Instructions ==
    {"NOOP", "LOAD", "STR", "XFER", "ADD", "OR", "AND", "XOR", "ROTR", "ROTL",
     "JMP", "HALT", "JMPA", "LDSP", "PUSH", "POP", "CALL", "RTN", "DEBUG"}

\* The tokens a source of instructions is made of.
RunToks ==
    {Tok(n, << >>) : n \in Instructions \cup {"END_INST", "IMMEDIATE", "EOF"}}
    \cup {Tok("REGISTER", l) : l \in {<<"1">>, <<"A">>}}
    \cup {Tok("NUMBER", <<"2">>)}

\* The tokens a source of the whole alphabet is made of.
FullToks ==
    {Tok(n, << >>) : n \in Mnemonics \cup {"END_INST", "COMMA", "IMMEDIATE", "EOF", "ILLEGAL"}}
    \cup {Tok("COMMENT", <<"A">>)}
    \cup {Tok("REGISTER", l) : l \in {<<"1">>, <<"D">>, <<"E">>, <<"G">>, <<"S", "P">>}}
    \cup {Tok("NUMBER", l) : l \in {<<"2">>, <<"3", "0", "0">>, <<"1", "x">>}}
    \cup {Tok("IDENT", l) : l \in {Foo, Foo \o <<"+", "2">>, Foo \o <<"-", "1">>, <<"$">>}}
    \cup {Tok("STRING", l) : l \in {<<"A", "B">>, <<"A", "B", "C">>}}
    \cup {Tok("LABEL", Foo)}

\* Numeric literals: the three forms of 0x7B, the ends of the u16 range in each
\* form, and digit-leading runs of the bytes read_number accepts.
NumberLits ==
    { <<"1", "2", "3">>, <<"0", "x", "7", "B">>, <<"!", "7", "B">>, <<"0", "x", "7", "b">>,
      <<"0">>, <<"0", "0", "1", "2", "3">>,
      <<"6", "5", "5", "3", "5">>, <<"6", "5", "5", "3", "6">>, <<"9", "9", "9", "9", "9", "9">>,
      <<"0", "x", "F", "F", "F", "F">>, <<"0", "x", "1", "0", "0", "0", "0">>,
      <<"!", "F", "F", "F", "F">>, <<"!", "1", "0", "0", "0", "0">>,
      <<"1", "2", "A", "B">>, <<"7", "B">>, <<"0", "x">>, <<"1", "x">>, <<"1", "!", "7">>,
      <<"0", "x", "0", "x", "7", "B">>, <<"0", "x", "!", "7", "B">> }

\* The tokens of sources of JMPA statements with a numeric operand.
NumToks ==
    {Tok(n, << >>) : n \in {"JMPA", "END_INST", "EOF"}}
    \cup {Tok("NUMBER", l) : l \in NumberLits}

\* The tokens of the sources used to exercise regions and linking.
LinkToks ==
    {Tok(n, << >>) : n \in {"JMPA", "ORG", "RMB", "END_INST", "EOF"}}
    \cup {Tok("NUMBER", l) : l \in {<<"1", "6">>, <<"3", "2">>, <<"4", "8">>,
                                    <<"6", "5", "5", "3", "4">>}}
    \cup {Tok("IDENT", l) : l \in {Foo \o <<"+", "2">>, Foo \o <<"-", "1">>, Bar}}
    \cup {Tok("LABEL", Foo)}

\* The tokens of sources that name the write cursor, $, in an operand.
HereToks ==
    {Tok(n, << >>) : n \in {"JMPA", "ORG", "RMB", "END_INST", "EOF"}}
    \cup {Tok("NUMBER", l) : l \in {<<"1", "6">>, <<"6", "5", "5", "3", "4">>}}
    \cup {Tok("IDENT", l) : l \in {<<"$">>, <<"$", "+", "2">>, <<"$", "-", "1">>,
                                   <<"$", "+", "2", "-", "1">>}}

\* The tokens of sources of FCB, FDB and RMB statements.
DataToks ==
    {Tok(n, << >>) : n \in {"FCB", "FDB", "RMB", "END_INST", "COMMA", "EOF"}}
    \cup {Tok("NUMBER", l) : l \in {<<"2">>, <<"3", "0", "0">>}}
    \cup {Tok("IDENT", Foo \o <<"+", "2">>)}
    \cup {Tok("STRING", <<"A", "B">>)}

\* The tokens of sources of LOAD, ADD, OR, AND, XOR and STR statements.
InstToks ==
    {Tok(n, << >>) : n \in {"LOAD", "ADD", "OR", "AND", "XOR", "STR",
                            "END_INST", "COMMA", "IMMEDIATE", "EOF"}}
    \cup {Tok("REGISTER", l) : l \in {<<"1">>, <<"D">>}}
    \cup {Tok("NUMBER", l) : l \in {<<"2">>, <<"7", "0", "0", "0", "0">>}}
    \cup {Tok("IDENT", Foo \o <<"+", "2">>)}
    \cup {Tok("STRING", l) : l \in {<<"A", "B">>, <<"A", "B", "C">>}}

\* The tokens of sources of the statements that take a register.
RegToks ==
    {Tok(n, << >>) : n \in {"LOAD", "STR", "XFER", "PUSH", "POP", "CALL", "LDSP", "JMP",
                            "ROTR", "ROTL", "END_INST", "COMMA", "IMMEDIATE", "EOF"}}
    \cup {Tok("REGISTER", l) : l \in {<<"1">>, <<"D">>, <<"E">>, <<"G">>, <<"S", "P">>}}
    \cup {Tok("NUMBER", <<"2">>)}

-----------------------------------------------------------------------------
(* Parser: argument parsers (parser/mod.rs:255-323)                         *)

\* The `_ =>` arm of parse_address (mod.rs:304): unimplemented!() panics.
OtherOperand(p) == [prog |-> p, res |-> "panic", val |-> 0]


Addr(p, res, val) == [prog |-> p, res |-> res, val |-> val]

\* The split of an IDENT literal at index ind (mod.rs:281-295), 0 when it has
\* no sign past its first character: [label, offset, ok].
SplitAt(lit, ind, off) ==
    IF ind > 0 THEN [label |-> SubSeq(lit, 1, ind), offset |-> off.val, ok |-> off.ok]
    ELSE [label |-> lit, offset |-> 0, ok |-> TRUE]

SplitIdent(lit, add_index, sub_index) ==
    IF add_index > 0 THEN SplitAt(lit, add_index, ParseI16(SubSeq(lit, add_index + 1, Len(lit))))
    ELSE IF sub_index > 0
    THEN SplitAt(lit, sub_index, ParseI16(SubSeq(lit, sub_index + 1, Len(lit))))
    ELSE SplitAt(lit, 0, [ok |-> TRUE, val |-> 0])

\* self.prog.pc() + offset as u16 (mod.rs:298)
HereAddr(p, here) == Addr(p, IF Overflows(here) THEN "panic" ELSE "ok", Wrap16(here))

\* self.prog.add_link(pcoffset, label, offset); Ok(0) (mod.rs:300-301)
Linked(l) == Addr(l.prog, IF l.trap THEN "panic" ELSE "ok", 0)

\* The IDENT arm of parse_address from the split literal on (mod.rs:293-302)
IdentOperand(p, pcoffset, sp1) ==
    CASE ~sp1.ok -> Addr(p, "err", 0)
      [] sp1.label = <<"$">> -> HereAddr(p, prog_pc(p) + AsU16(sp1.offset))
      [] OTHER -> Linked(add_link(p, pcoffset, sp1.label, sp1.offset))

\* The STRING arm of parse_address (mod.rs:262-271)
StringOperand(p, bytes) ==
    CASE Len(bytes) = 0 -> Addr(p, "ok", 0)
      [] Len(bytes) = 1 -> Addr(p, "ok", bytes[1])
      [] Len(bytes) = 2 -> Addr(p, "ok", bytes[1] * 256 + bytes[2])
      [] OTHER -> Addr(p, "err", 0)

\* The NUMBER arm of parse_address (mod.rs:258-261)
NumberOperand(p, n) == Addr(p, IF n.ok THEN "ok" ELSE "err", n.val)

\* max(0, i): Option<usize>::unwrap_or_default of str::find
OrDefault(i) == IF i < 0 THEN 0 ELSE i

\* parse_address on the current token: [prog, res, val], res one of ok, err, panic.
parse_address(p, tok, pcoffset) ==
    CASE tok.name = "NUMBER" -> NumberOperand(p, parse_u16(tok.literal))
      [] tok.name = "STRING" -> StringOperand(p, AsBytes(tok.literal))
      [] tok.name = "IDENT" ->
            IdentOperand(p, pcoffset,
                         SplitIdent(tok.literal, OrDefault(Find(tok.literal, "+")),
                                    OrDefault(Find(tok.literal, "-"))))
      [] OTHER -> OtherOperand(p)

\* The register range check of parse_register (mod.rs:315); the mutant lets
\* every hex digit through.
RegisterInRangeAny(n) == TRUE
RegisterInRange(n) == ~(n > 13)

\* A ParserError: its constructor and the format string of its message.
PErr(kind, msg) == [kind |-> kind, msg |-> msg]

no_err == PErr("none", "none")

\* parse_err (mod.rs:134-136)
parse_err == PErr("InvalidCode", "{} on line {}")

\* token_err (mod.rs:138-143)
token_err == PErr("ExpectedToken", "expected {} on line {}, got {}")

\* tokens_err (mod.rs:145-150)
tokens_err == PErr("ExpectedToken", "expected {:?} on line {}, got {}")

\* The error of the `_ =>` arm of parse's match (mod.rs:107-110)
unknown_token_err == PErr("InvalidCode", "line {}, col {} Unknown token {}")

\* The error of parse_register_lit (mod.rs:348), which parse_register hands on
\* as it is (mod.rs:321)
register_lit_err == PErr("InvalidCode", "invalid register")

\* The message of validate's Err (program.rs:103-110)
validate_msg ==
    "overlapping address regions:\nOrigin 0x{:04X} goes to 0x{:04X}\nOrigin 0x{:04X} begins inside region"

\* The message of link's Err (linker.rs:15)
link_msg == "label {} is not defined"

Reg(ok, val, err) == [ok |-> ok, val |-> val, err |-> err]

\* The match of parse_register on the literal's value (mod.rs:313-322)
RegisterLit(n) ==
    IF ~n.ok THEN Reg(FALSE, 0, register_lit_err)
    ELSE IF ~RegisterInRange(n.val) THEN Reg(FALSE, 0, parse_err)
    ELSE Reg(TRUE, n.val, no_err)

\* parse_register on the current token: [ok, val, err].
parse_register(tok) ==
    IF tok.name # "REGISTER" THEN Reg(FALSE, 0, token_err)
    ELSE RegisterLit(parse_register_lit(tok.literal))

-----------------------------------------------------------------------------
(* Parser::parse (parser/mod.rs:58-122): one action for each arm of the     *)
(* loop's match.  T is the token alphabet of the source, max its number of  *)
(* statements; every read_token draws the next token of the source.  toks   *)
(* are the tokens the statement has read so far, its mnemonic first; the    *)
(* last of them is Parser.cur_tok.                                          *)

AtStmt(names, max) ==
    /\ asmState = "parsing"
    /\ cur_tok.name \in names
    /\ nstmts < max

AsmFrame == UNCHANGED <<lerr, prelink, vmVars, checked, lexVars, record>>

\* The statement returned Ok: `res?` passes and the loop reads the next token
\* (mod.rs:113-115).
Done(T, max, p, toks) ==
    /\ prog' = p
    /\ asmState' = "parsing"
    /\ perr' = "none" /\ errmsg' = "none"
    /\ nstmts' = nstmts + 1
    /\ stmt' = toks
    /\ prestmt' = prog
    /\ cur_tok' \in (IF nstmts + 1 >= max THEN {EofTok} ELSE T)
    /\ AsmFrame

\* The statement returned Err(kind): `res?` makes parse return it (mod.rs:113).
Fail(p, toks, kind) ==
    /\ prog' = p
    /\ asmState' = "parse_err"
    /\ perr' = kind.kind /\ errmsg' = kind.msg
    /\ nstmts' = nstmts + 1
    /\ stmt' = toks
    /\ prestmt' = prog
    /\ cur_tok' = toks[Len(toks)]
    /\ AsmFrame

\* The thread panicked inside the statement.
Panicked(p, toks) ==
    /\ prog' = p
    /\ asmState' = "panicked"
    /\ perr' = "none" /\ errmsg' = "none"
    /\ nstmts' = nstmts + 1
    /\ stmt' = toks
    /\ prestmt' = prog
    /\ cur_tok' = toks[Len(toks)]
    /\ AsmFrame

\* expect_token(END_INST) closing a statement (mod.rs:152-159)
ExpectEnd(T, max, p, toks) ==
    \E t \in T : IF t.name = "END_INST" THEN Done(T, max, p, Append(toks, t))
                 ELSE Fail(p, Append(toks, t), token_err)

\* What a statement does with the result a of parse_address: `?` returns its
\* Err, else head and the two value bytes are appended, and
\* expect_token(END_INST) closes the statement when `ends`.
WithAddress(T, max, toks, head, ends, a) ==
    CASE a.res = "err" -> Fail(a.prog, toks, parse_err)
      [] a.res = "panic" -> Panicked(a.prog, toks)
      [] ends -> ExpectEnd(T, max, append_code(a.prog, head \o <<Hi(a.val), Lo(a.val)>>), toks)
      [] OTHER -> Done(T, max, append_code(a.prog, head \o <<Hi(a.val), Lo(a.val)>>), toks)

\* parse_address(pcoffset) on the current token, the last of toks.
AddressForm(T, max, toks, head, pcoffset, ends) ==
    WithAddress(T, max, toks, head, ends, parse_address(prog, toks[Len(toks)], pcoffset))

\* What a statement does with the result src of parse_register: `?` returns
\* its Err, else head and the register are appended.
WithRegister(T, max, toks, head, ends, src) ==
    CASE ~src.ok -> Fail(prog, toks, src.err)
      [] ends -> ExpectEnd(T, max, append_code(prog, head \o <<src.val>>), toks)
      [] OTHER -> Done(T, max, append_code(prog, head \o <<src.val>>), toks)

\* parse_register on the current token, the last of toks.
RegisterForm(T, max, toks, head, ends) ==
    WithRegister(T, max, toks, head, ends, parse_register(toks[Len(toks)]))

\* The opcodes parse hands each statement parser (mod.rs:68-99); the mutant
\* hands the immediate and the address opcode over in each other's place.
Opcodes3(i, a, r) == [imm |-> i, addr |-> a, reg |-> r]
OpcodesSwapped(name) ==
    CASE name = "LOAD" -> Opcodes3(LOADA, LOADI, LOADR)
      [] name = "ADD" -> Opcodes3(ADDA, ADDI, ADDR)
      [] name = "OR" -> Opcodes3(ORA, ORI, ORR)
      [] name = "AND" -> Opcodes3(ANDA, ANDI, ANDR)
      [] name = "XOR" -> Opcodes3(XORA, XORI, XORR)
      [] name = "LDSP" -> Opcodes3(LDSPA, LDSPI, LDSPR)
      [] name = "STR" -> Opcodes3(STRA, STRA, STRR)
      [] name = "CALL" -> Opcodes3(CALLA, CALLA, CALLR)
      [] OTHER -> Opcodes3(NOOP, NOOP, NOOP)
Opcodes(name) ==
    CASE name = "LOAD" -> Opcodes3(LOADI, LOADA, LOADR)
      [] name = "ADD" -> Opcodes3(ADDI, ADDA, ADDR)
      [] name = "OR" -> Opcodes3(ORI, ORA, ORR)
      [] name = "AND" -> Opcodes3(ANDI, ANDA, ANDR)
      [] name = "XOR" -> Opcodes3(XORI, XORA, XORR)
      [] name = "LDSP" -> Opcodes3(LDSPI, LDSPA, LDSPR)
      [] name = "STR" -> Opcodes3(STRA, STRA, STRR)
      [] name = "CALL" -> Opcodes3(CALLA, CALLA, CALLR)
      [] OTHER -> Opcodes3(NOOP, NOOP, NOOP)

\* The opcode parse hands a parser that takes one (mod.rs:72-99).
Opcode1(name) ==
    CASE name = "XFER" -> XFER
      [] name = "ROTR" -> ROTR
      [] name = "ROTL" -> ROTL
      [] name = "PUSH" -> PUSH
      [] name = "POP" -> POP
      [] name = "JMP" -> JMP
      [] name = "JMPA" -> JMPA
      [] name = "HALT" -> HALT
      [] name = "NOOP" -> NOOP
      [] name = "RTN" -> RTN
      [] name = "DEBUG" -> DEBUG

\* END_INST | COMMENT => read_token, continue (mod.rs:62-65)
SkipLine(T) ==
    /\ asmState = "parsing"
    /\ cur_tok.name \in {"END_INST", "COMMENT"}
    /\ cur_tok' \in T
    /\ UNCHANGED <<prog, asmState, perr, errmsg, nstmts, stmt, prestmt>>
    /\ AsmFrame

\* The match of parse_inst on the token after the destination (instructions.rs:86-113)
InstForms(T, max, c, t1, dest) ==
    \E t2 \in T :
       CASE t2.name \in {"NUMBER", "IDENT"} ->
              AddressForm(T, max, <<cur_tok, t1, t2>>, <<c.addr, dest>>, 2, TRUE)
         [] t2.name = "IMMEDIATE" ->
              \E t3 \in T :
                 AddressForm(T, max, <<cur_tok, t1, t2, t3>>, <<c.imm, dest>>, 2, TRUE)
         [] t2.name = "REGISTER" ->
              RegisterForm(T, max, <<cur_tok, t1, t2>>, <<c.reg, dest>>, TRUE)
         [] OTHER -> Fail(prog, <<cur_tok, t1, t2>>, tokens_err)

\* The match of parse_inst_no_imm on the token after the destination
\* (instructions.rs:190-210)
InstNoImmForms(T, max, c, t1, dest) ==
    \E t2 \in T :
       CASE t2.name \in {"NUMBER", "IDENT"} ->
              AddressForm(T, max, <<cur_tok, t1, t2>>, <<c.addr, dest>>, 2, TRUE)
         [] t2.name = "REGISTER" ->
              RegisterForm(T, max, <<cur_tok, t1, t2>>, <<c.reg, dest>>, TRUE)
         [] OTHER -> Fail(prog, <<cur_tok, t1, t2>>, tokens_err)

\* What a statement that begins with a register does with the result reg1 of
\* parse_register on its first operand t1: `?` returns its Err.
WithDest(kind, T, max, c, t1, reg1) ==
    CASE ~reg1.ok -> Fail(prog, <<cur_tok, t1>>, reg1.err)
      [] kind = "inst" -> InstForms(T, max, c, t1, reg1.val)
      [] OTHER -> InstNoImmForms(T, max, c, t1, reg1.val)

\* parse_inst (instructions.rs:77-114)
StmtInst(T, max) ==
    /\ AtStmt({"LOAD", "ADD", "OR", "AND", "XOR"}, max)
    /\ \E t1 \in T : WithDest("inst", T, max, Opcodes(cur_tok.name), t1, parse_register(t1))

\* parse_inst_no_imm (instructions.rs:182-211)
StmtInstNoImm(T, max) ==
    /\ AtStmt({"STR"}, max)
    /\ \E t1 \in T : WithDest("no_imm", T, max, Opcodes(cur_tok.name), t1, parse_register(t1))

\* The match of parse_inst_no_dest on the first operand (instructions.rs:124-150)
InstNoDestForms(T, max, c) ==
    \E t1 \in T :
       CASE t1.name \in {"NUMBER", "IDENT"} ->
              AddressForm(T, max, <<cur_tok, t1>>, <<c.addr>>, 1, TRUE)
         [] t1.name = "IMMEDIATE" ->
              \E t2 \in T : AddressForm(T, max, <<cur_tok, t1, t2>>, <<c.imm>>, 1, TRUE)
         [] t1.name = "REGISTER" -> RegisterForm(T, max, <<cur_tok, t1>>, <<c.reg>>, TRUE)
         [] OTHER -> Fail(prog, <<cur_tok, t1>>, tokens_err)

\* parse_inst_no_dest (instructions.rs:116-151)
StmtInstNoDest(T, max) ==
    /\ AtStmt({"LDSP"}, max)
    /\ InstNoDestForms(T, max, Opcodes(cur_tok.name))

\* The match of parse_inst_no_imm_no_dest on the first operand (instructions.rs:160-179)
InstNoImmNoDestForms(T, max, c) ==
    \E t1 \in T :
       CASE t1.name \in {"NUMBER", "IDENT"} ->
              AddressForm(T, max, <<cur_tok, t1>>, <<c.addr>>, 1, TRUE)
         [] t1.name = "REGISTER" -> RegisterForm(T, max, <<cur_tok, t1>>, <<c.reg>>, TRUE)
         [] OTHER -> Fail(prog, <<cur_tok, t1>>, tokens_err)

\* parse_inst_no_imm_no_dest (instructions.rs:153-180)
StmtInstNoImmNoDest(T, max) ==
    /\ AtStmt({"CALL"}, max)
    /\ InstNoImmNoDestForms(T, max, Opcodes(cur_tok.name))

\* parse_no_args (instructions.rs:6-9)
StmtNoArgs(T, max) ==
    /\ AtStmt({"HALT", "NOOP", "RTN", "DEBUG"}, max)
    /\ ExpectEnd(T, max, append_code(prog, <<Opcode1(cur_tok.name)>>), <<cur_tok>>)

\* parse_num (instructions.rs:11-19)
StmtNum(T, max) ==
    /\ AtStmt({"JMPA"}, max)
    /\ \E t1 \in T :
         AddressForm(T, max, <<cur_tok, t1>>, <<Opcode1(cur_tok.name)>>, 1, FALSE)

\* parse_reg (instructions.rs:21-28)
StmtReg(T, max) ==
    /\ AtStmt({"PUSH", "POP"}, max)
    /\ \E t1 \in T :
         RegisterForm(T, max, <<cur_tok, t1>>, <<Opcode1(cur_tok.name)>>, FALSE)

\* What parse_reg_half_num does with the result a of parse_address
\* (instructions.rs:67-74)
HalfNum(T, max, toks, reg1, a) ==
    CASE a.res = "err" -> Fail(a.prog, toks, parse_err)
      [] a.res = "panic" -> Panicked(a.prog, toks)
      [] a.val > 255 -> Fail(a.prog, toks, parse_err)
      [] OTHER -> Done(T, max, append_code(a.prog, <<Opcode1(toks[1].name), reg1, Lo(a.val)>>),
                       toks)

\* The second operand of parse_reg_reg (instructions.rs:36-40), of parse_reg_num
\* (instructions.rs:49-54) and of parse_reg_half_num (instructions.rs:62-74), the
\* first being the register reg1 of token t1.
SecondOperand(kind, T, max, t1, reg1) ==
    CASE ~reg1.ok -> Fail(prog, <<cur_tok, t1>>, reg1.err)
      [] kind = "reg" ->
            \E t2 \in T : RegisterForm(T, max, <<cur_tok, t1, t2>>,
                                       <<Opcode1(cur_tok.name), reg1.val>>, FALSE)
      [] kind = "num" ->
            \E t2 \in T : AddressForm(T, max, <<cur_tok, t1, t2>>,
                                      <<Opcode1(cur_tok.name), reg1.val>>, 2, FALSE)
      [] OTHER ->
            \E t2 \in T : \E t3 \in T :
               IF t3.name # "IMMEDIATE"
               THEN Fail(prog, <<cur_tok, t1, t2, t3>>, token_err)
               ELSE \E t4 \in T : HalfNum(T, max, <<cur_tok, t1, t2, t3, t4>>, reg1.val,
                                          parse_address(prog, t4, 2))

\* parse_reg_reg (instructions.rs:30-41)
StmtRegReg(T, max) ==
    /\ AtStmt({"XFER"}, max)
    /\ \E t1 \in T : SecondOperand("reg", T, max, t1, parse_register(t1))

\* parse_reg_num (instructions.rs:43-55)
StmtRegNum(T, max) ==
    /\ AtStmt({"JMP"}, max)
    /\ \E t1 \in T : SecondOperand("num", T, max, t1, parse_register(t1))

\* parse_reg_half_num (instructions.rs:57-75): read_token, then expect_token,
\* which reads again, so the token after the register is passed over.
StmtRegHalfNum(T, max) ==
    /\ AtStmt({"ROTR", "ROTL"}, max)
    /\ \E t1 \in T : SecondOperand("half", T, max, t1, parse_register(t1))

\* make_label (mod.rs:162-165)
StmtLabel(T, max) ==
    /\ AtStmt({"LABEL"}, max)
    /\ Done(T, max, add_label(prog, cur_tok.literal), <<cur_tok>>)

\* What ins_rmb (mod.rs:228-238) and ins_org (mod.rs:243-252) do with their
\* operand t1, val being parse_u16 of its literal.
WithNumber(kind, T, max, t1, val) ==
    CASE t1.name # "NUMBER" -> Fail(prog, <<cur_tok, t1>>, token_err)
      [] ~val.ok -> Fail(prog, <<cur_tok, t1>>, parse_err)
      [] kind = "rmb" ->
            Done(T, max, append_code(prog, [i \in 1..val.val |-> 0]), <<cur_tok, t1>>)
      [] OTHER -> Done(T, max, add_code_part(prog, val.val), <<cur_tok, t1>>)

\* ins_rmb (mod.rs:226-239); a source reserves at most MaxRmb bytes at a time.
StmtRmb(T, max) ==
    /\ AtStmt({"RMB"}, max)
    /\ \E t1 \in {t \in T : ~(t.name = "NUMBER" /\ parse_u16(t.literal).val > MaxRmb)} :
         WithNumber("rmb", T, max, t1, parse_u16(t1.literal))

\* ins_org (mod.rs:241-253)
StmtOrg(T, max) ==
    /\ AtStmt({"ORG"}, max)
    /\ \E t1 \in T : WithNumber("org", T, max, t1, parse_u16(t1.literal))

Item(res, p) == [res |-> res, prog |-> p]

\* The item of raw_data_fdb's loop handed the result a of parse_address (mod.rs:209-210)
FdbValue(a) ==
    Item(a.res, IF a.res = "ok" THEN append_code(a.prog, <<Hi(a.val), Lo(a.val)>>) ELSE a.prog)

\* The NUMBER item of raw_data_fcb's loop, val being parse_u16 of its literal (mod.rs:177-185)
\* The mutant of the NUMBER item lets every value through and keeps its low byte.
FcbValueAny(p, val) ==
    IF val.ok THEN Item("ok", append_code(p, <<Lo(val.val)>>)) ELSE Item("err", p)
FcbValue(p, val) ==
    IF val.ok /\ val.val <= 255 THEN Item("ok", append_code(p, <<val.val>>)) ELSE Item("err", p)

\* What one round of the loop of raw_data_fcb (mod.rs:171-185) or raw_data_fdb
\* (mod.rs:205-210) does with the item tok: [res, prog].
DataItem(p, tok, fdb) ==
    CASE fdb /\ tok.name = "STRING" -> Item("err", p)
      [] fdb -> FdbValue(parse_address(p, tok, 0))
      [] tok.name \notin {"NUMBER", "STRING"} -> Item("err", p)
      [] tok.name = "STRING" -> Item("ok", append_code(p, AsBytes(tok.literal)))
      [] OTHER -> FcbValue(p, parse_u16(tok.literal))

Ended(res, kind, p, toks) == [res |-> res, perr |-> kind, prog |-> p, toks |-> toks]

\* The ways the loop can end from its n-th item on, the item being the last of
\* toks: the set of [res, perr, prog, toks].  A list has at most MaxItems items.
RECURSIVE DataList(_, _, _, _, _)

AfterItem(T, toks, n, fdb, item) ==
    IF item.res # "ok" THEN {Ended(item.res, parse_err, item.prog, toks)}
    ELSE UNION {
           CASE t.name = "END_INST" -> {Ended("ok", no_err, item.prog, Append(toks, t))}
             [] t.name # "COMMA" -> {Ended("err", token_err, item.prog, Append(toks, t))}
             [] OTHER ->
                  UNION {DataList(T, item.prog, toks \o <<t, t2>>, n + 1, fdb) : t2 \in T}
           : t \in {x \in T : n < MaxItems \/ x.name # "COMMA"}}

DataList(T, p, toks, n, fdb) ==
    AfterItem(T, toks, n, fdb, DataItem(p, toks[Len(toks)], fdb))

DataStmt(T, max, fdb) ==
    \E t1 \in T : \E o \in DataList(T, prog, <<cur_tok, t1>>, 1, fdb) :
        CASE o.res = "ok" -> Done(T, max, o.prog, o.toks)
          [] o.res = "err" -> Fail(o.prog, o.toks, o.perr)
          [] OTHER -> Panicked(o.prog, o.toks)

\* raw_data_fcb (mod.rs:167-199)
StmtFcb(T, max) ==
    /\ AtStmt({"FCB"}, max)
    /\ DataStmt(T, max, FALSE)

\* raw_data_fdb (mod.rs:201-224)
StmtFdb(T, max) ==
    /\ AtStmt({"FDB"}, max)
    /\ DataStmt(T, max, TRUE)

\* The `_ =>` arm of parse's match (mod.rs:107-110)
StmtUnknown(max) ==
    /\ asmState = "parsing"
    /\ cur_tok.name \notin Mnemonics \cup {"END_INST", "COMMENT", "EOF", "LABEL"}
    /\ nstmts < max
    /\ Fail(prog, <<cur_tok>>, unknown_token_err)

\* The loop ends at EOF and the program is validated (mod.rs:59, 118-121).
ParseEnd ==
    /\ asmState = "parsing"
    /\ cur_tok.name = "EOF"
    /\ LET v == validate(prog)
       IN  /\ prog' = v.prog
           /\ asmState' = CASE v.res = "ok" -> "parsed"
                            [] v.res = "err" -> "invalid"
                            [] OTHER -> "panicked_validate"
           /\ perr' = IF v.res = "err" THEN "ValidationError" ELSE "none"
           /\ errmsg' = IF v.res = "err" THEN validate_msg ELSE "none"
    /\ UNCHANGED <<cur_tok, nstmts, stmt, prestmt>>
    /\ AsmFrame

\* The outcomes of link on the parts from part i on: [parts, res, label].
RECURSIVE LinkFrom(_, _, _)
LinkFrom(parts, labels, i) ==
    IF i > Len(parts) THEN {[parts |-> parts, res |-> "ok", label |-> << >>]}
    ELSE UNION {
        LET r == LinkPart(parts[i].bytes, parts[i].link_map, labels, o)
            patched == [parts EXCEPT ![i].bytes = r.bytes]
        IN  IF r.res = "ok" THEN LinkFrom(patched, labels, i + 1)
            ELSE {[parts |-> patched, res |-> r.res, label |-> r.label]}
        : o \in Orders(DOMAIN parts[i].link_map)}

\* link(&mut program) on the Program parse returned (linker.rs:3-21)
Link ==
    /\ asmState = "parsed"
    /\ \E r \in LinkFrom(prog.parts, prog.labels, 1) :
         /\ prog' = [prog EXCEPT !.parts = r.parts]
         /\ asmState' = CASE r.res = "ok" -> "linked"
                          [] r.res = "err" -> "link_err"
                          [] OTHER -> "panicked_link"
         /\ lerr' = r.label
         /\ errmsg' = IF r.res = "err" THEN link_msg ELSE "none"
    /\ prelink' = prog
    /\ UNCHANGED <<cur_tok, perr, nstmts, stmt, prestmt, vmVars, checked, lexVars, record>>

AsmInit(T) ==
    /\ prog = ProgramNew
    /\ cur_tok \in T
    /\ asmState = "parsing"
    /\ perr = "none" /\ errmsg = "none"
    /\ lerr = << >>
    /\ nstmts = 0
    /\ stmt = << >>
    /\ prestmt = ProgramNew
    /\ prelink = ProgramNew

AsmIdle ==
    /\ prog = ProgramNew
    /\ cur_tok = EofTok
    /\ asmState = "idle"
    /\ perr = "none" /\ errmsg = "none"
    /\ lerr = << >>
    /\ nstmts = 0
    /\ stmt = << >>
    /\ prestmt = ProgramNew
    /\ prelink = ProgramNew

-----------------------------------------------------------------------------
(* Lexer (compiler/lexer.rs). A byte is a one-character string; NUL is the *)
(* zero byte, which read_char also substitutes for an exhausted reader.    *)

NUL == "\\0"
HighByte == "\\x80"     \* stands for the bytes above 0x7F: not ASCII, in no class

LowerCase ==
    {"a", "b", "c", "d", "e", "f", "g", "h", "i", "j", "k", "l", "m",
     "n", "o", "p", "q", "r", "s", "t", "u", "v", "w", "x", "y", "z"}
UpperCase ==
    {"A", "B", "C", "D", "E", "F", "G", "H", "I", "J", "K", "L", "M",
     "N", "O", "P", "Q", "R", "S", "T", "U", "V", "W", "X", "Y", "Z"}

is_whitespace(ch) == ch \in {" ", "\t", "\n", "\r"}
is_digit(ch) == ch \in {"0", "1", "2", "3", "4", "5", "6", "7", "8", "9"}
is_hex_digit(ch) ==
    ch \in {"a", "b", "c", "d", "e", "f", "A", "B", "C", "D", "E", "F", "x"}
is_letter(ch) == ch \in LowerCase \cup UpperCase \cup {"_", "$"}
is_ident(ch) == is_letter(ch) \/ is_digit(ch) \/ ch = "-" \/ ch = "+"

\* TokenType::lookup_ident (token.rs:43-70): the spelling of each keyword.
Keywords ==
    { <<"N", "O", "O", "P">>, <<"L", "O", "A", "D">>, <<"S", "T", "R">>,
      <<"X", "F", "E", "R">>, <<"A", "D", "D">>, <<"O", "R">>, <<"A", "N", "D">>,
      <<"X", "O", "R">>, <<"R", "O", "T", "R">>, <<"R", "O", "T", "L">>,
      <<"J", "M", "P">>, <<"H", "A", "L", "T">>, <<"J", "M", "P", "A">>,
      <<"L", "D", "S", "P">>, <<"P", "U", "S", "H">>, <<"P", "O", "P">>,
      <<"C", "A", "L", "L">>, <<"R", "T", "N">>, <<"R", "M", "B">>, <<"O", "R", "G">>,
      <<"F", "C", "B">>, <<"F", "D", "B">>, <<"D", "E", "B", "U", "G">> }

KeywordName(s) ==
    CASE s = <<"N", "O", "O", "P">> -> "NOOP"
      [] s = <<"L", "O", "A", "D">> -> "LOAD"
      [] s = <<"S", "T", "R">> -> "STR"
      [] s = <<"X", "F", "E", "R">> -> "XFER"
      [] s = <<"A", "D", "D">> -> "ADD"
      [] s = <<"O", "R">> -> "OR"
      [] s = <<"A", "N", "D">> -> "AND"
      [] s = <<"X", "O", "R">> -> "XOR"
      [] s = <<"R", "O", "T", "R">> -> "ROTR"
      [] s = <<"R", "O", "T", "L">> -> "ROTL"
      [] s = <<"J", "M", "P">> -> "JMP"
      [] s = <<"H", "A", "L", "T">> -> "HALT"
      [] s = <<"J", "M", "P", "A">> -> "JMPA"
      [] s = <<"L", "D", "S", "P">> -> "LDSP"
      [] s = <<"P", "U", "S", "H">> -> "PUSH"
      [] s = <<"P", "O", "P">> -> "POP"
      [] s = <<"C", "A", "L", "L">> -> "CALL"
      [] s = <<"R", "T", "N">> -> "RTN"
      [] s = <<"R", "M", "B">> -> "RMB"
      [] s = <<"O", "R", "G">> -> "ORG"
      [] s = <<"F", "C", "B">> -> "FCB"
      [] s = <<"F", "D", "B">> -> "FDB"
      [] s = <<"D", "E", "B", "U", "G">> -> "DEBUG"

lookup_ident(s) == IF s \in Keywords THEN KeywordName(s) ELSE "IDENT"

\* Token::simple and Token::with_literal (token.rs), with the position.
LexTok(n, l, ln, c) == [name |-> n, literal |-> l, line |-> ln, col |-> c]

\* The Lexer as a record.
Lexer == [reader |-> reader, cur_ch |-> cur_ch, peek_ch |-> peek_ch,
          line |-> line, col |-> col]

\* self.reader.next().unwrap_or(Ok(0)).unwrap_or(0)
ReaderNext(r) ==
    IF r = << >> THEN [ch |-> NUL, rest |-> << >>] ELSE [ch |-> Head(r), rest |-> Tail(r)]

read_char(lx) ==
    LET n1 == ReaderNext(lx.reader)
        n2 == IF n1.ch = "\r" THEN ReaderNext(n1.rest) ELSE n1
    IN  [lx EXCEPT !.cur_ch = lx.peek_ch, !.peek_ch = n2.ch, !.reader = n2.rest,
                   !.col = lx.col + 1]

reset_pos(lx) == [lx EXCEPT !.line = lx.line + 1, !.col = 0]

\* Lexer::new (lexer.rs:16-31)
LexerNew(src) ==
    read_char(read_char([reader |-> src, cur_ch |-> NUL, peek_ch |-> NUL,
                         line |-> 1, col |-> 0]))

RECURSIVE devour_whitespace(_)
devour_whitespace(lx) ==
    IF is_whitespace(lx.cur_ch) THEN devour_whitespace(read_char(lx)) ELSE lx

\* The loops of the read_ functions give [lx, lit], the bytes pushed so far in lit.
RECURSIVE IdentifierLoop(_, _)
IdentifierLoop(lx, ident) ==
    IF is_ident(lx.cur_ch) THEN IdentifierLoop(read_char(lx), Append(ident, lx.cur_ch))
    ELSE [lx |-> lx, lit |-> ident]

read_identifier(lx) == IdentifierLoop(lx, << >>)

\* Nothing is left to read and cur_ch stays the zero byte.
Exhausted(lx) == lx.reader = << >> /\ lx.peek_ch = NUL /\ lx.cur_ch = NUL

\* read_string's loop ends at a closing quote only: at the end of the input it
\* goes on pushing zero bytes (hung).
RECURSIVE StringLoop(_, _)
StringLoop(lx, ident) ==
    IF lx.cur_ch = "\"" THEN [lx |-> lx, lit |-> ident, hung |-> FALSE]
    ELSE IF Exhausted(lx) THEN [lx |-> lx, lit |-> ident, hung |-> TRUE]
    ELSE StringLoop(read_char(lx), Append(ident, lx.cur_ch))

read_string(lx) == StringLoop(read_char(lx), << >>)

\* str::trim on the bytes of a comment.
RECURSIVE TrimStart(_)
TrimStart(s) ==
    IF s # << >> /\ is_whitespace(Head(s)) THEN TrimStart(Tail(s)) ELSE s
RECURSIVE TrimEnd(_)
TrimEnd(s) ==
    IF s # << >> /\ is_whitespace(s[Len(s)]) THEN TrimEnd(SubSeq(s, 1, Len(s) - 1)) ELSE s
Trim(s) == TrimEnd(TrimStart(s))

RECURSIVE CommentLoop(_, _)
CommentLoop(lx, comm) ==
    IF lx.cur_ch # "\n" /\ lx.cur_ch # NUL
    THEN CommentLoop(read_char(lx), Append(comm, lx.cur_ch))
    ELSE [lx |-> lx, lit |-> Trim(comm)]

read_single_line_comment(lx) == CommentLoop(read_char(lx), << >>)

RECURSIVE NumberLoop(_, _)
NumberLoop(lx, num) ==
    IF is_digit(lx.cur_ch) \/ is_hex_digit(lx.cur_ch) \/ lx.cur_ch = "!"
    THEN NumberLoop(read_char(lx), Append(num, lx.cur_ch))
    ELSE [lx |-> lx, lit |-> num]

read_number(lx) == NumberLoop(lx, << >>)

\* What a call of next comes to: the token it returns and the lexer it leaves,
\* or no return at all.
Returned(lx, tok) == [lx |-> lx, tok |-> tok, end |-> "returned"]
NoReturn(lx, how) == [lx |-> lx, tok |-> LexTok("ILLEGAL", << >>, 0, 0), end |-> how]

\* some_token!: the literal is evaluated first, then self.line and self.col.
SomeToken(lx, n, l) == LexTok(n, l, lx.line, lx.col)

\* Lexer::next (lexer.rs:99-165); `l` is the lexer after devour_whitespace.
NextArm(l) ==
    CASE l.cur_ch = ":" ->
            LET r == read_identifier(read_char(l))
            IN  Returned(read_char(r.lx), SomeToken(r.lx, "LABEL", r.lit))
      [] l.cur_ch = "#" -> Returned(read_char(l), SomeToken(l, "IMMEDIATE", << >>))
      [] l.cur_ch = "," -> Returned(read_char(l), SomeToken(l, "COMMA", << >>))
      [] l.cur_ch = "\"" ->
            LET r == read_string(l)
            IN  IF r.hung THEN NoReturn(r.lx, "hung")
                ELSE Returned(read_char(r.lx), SomeToken(r.lx, "STRING", r.lit))
      [] l.cur_ch = ";" ->
            LET r == read_single_line_comment(l)
            IN  Returned(read_char(reset_pos(r.lx)),
                         LexTok("COMMENT", r.lit, r.lx.line, l.col))
      [] l.cur_ch = "%" ->
            LET l1 == read_char(l)
            IN  IF l1.cur_ch = "S" /\ l1.peek_ch = "P"
                THEN LET l2 == read_char(l1)
                     IN  Returned(read_char(l2), SomeToken(l2, "REGISTER", <<"S", "P">>))
                ELSE IF l1.cur_ch = HighByte
                THEN NoReturn(l1, "panicked")       \* String::from_utf8(..).unwrap()
                ELSE Returned(read_char(l1), SomeToken(l1, "REGISTER", <<l1.cur_ch>>))
      [] l.cur_ch = NUL -> Returned(read_char(l), SomeToken(l, "EOF", << >>))
      [] OTHER ->
            IF is_letter(l.cur_ch)
            THEN LET r == read_identifier(l)
                 IN  Returned(r.lx, SomeToken(r.lx, lookup_ident(r.lit), r.lit))
            ELSE IF is_digit(l.cur_ch)
            THEN LET r == read_number(l)
                 IN  Returned(r.lx, SomeToken(r.lx, "NUMBER", r.lit))
            ELSE Returned(read_char(l), SomeToken(l, "ILLEGAL", << >>))

next(lx) ==
    IF lx.cur_ch = "\n"
    THEN Returned(read_char(reset_pos(lx)), LexTok("END_INST", << >>, lx.line, lx.col))
    ELSE NextArm(devour_whitespace(lx))

\* The sources: every byte string of up to MaxSrc bytes of SrcChars, and the
\* lines and literals below.
SrcChars == {"\n", " ", "\t", "\r", ":", "%", ";", "\"", ",", "a", "7", "!"}

RECURSIVE ByteStrings(_)
ByteStrings(n) ==
    IF n = 0 THEN {<< >>}
    ELSE ByteStrings(n - 1) \cup {Append(s, c) : s \in ByteStrings(n - 1), c \in SrcChars}

Decimal123 == <<"1", "2", "3">>
Hex0x7B == <<"0", "x", "7", "B">>
HexBang7B == <<"!", "7", "B">>
NumberLiterals == {Decimal123, Hex0x7B, HexBang7B}

NumberSources ==
    {pre \o n \o post : pre \in {<< >>, <<"#">>, <<" ">>}, n \in NumberLiterals,
                        post \in {<< >>, <<"\n">>, <<" ", "\n">>}}

RegisterSources ==
    {<<"%">> \o r \o post : r \in {<<"S", "P">>, <<"S">>, <<"A">>, <<"S", "p">>, <<NUL>>,
                                   <<HighByte>>},
                            post \in {<< >>, <<"\n">>, <<",", "%", "1">>}}

KeywordSources ==
    {k \o post : k \in {<<"H", "A", "L", "T">>, <<"R", "T", "N">>, <<"h", "a", "l", "t">>,
                        <<"f", "o", "o", "+", "2">>, <<"$", "-", "1">>},
                 post \in {<< >>, <<"\n">>, <<" ", ";", " ", "c", " ", "\n">>,
                           <<"\r", "\n">>}}

Sources == ByteStrings(MaxSrc) \cup NumberSources \cup RegisterSources \cup KeywordSources

\* The lexer of other specifications is never constructed.
LexIdle ==
    /\ source = << >>
    /\ reader = << >>
    /\ cur_ch = NUL
    /\ peek_ch = NUL
    /\ line = 1
    /\ col = 0
    /\ tokens = << >>
    /\ lexState = "idle"
    /\ compiled = << >>

\* Lexer::new(src) has returned.
LexInit ==
    \E src \in Sources :
        LET l == LexerNew(src)
        IN  /\ source = src
            /\ reader = l.reader
            /\ cur_ch = l.cur_ch
            /\ peek_ch = l.peek_ch
            /\ line = l.line
            /\ col = l.col
            /\ tokens = << >>
            /\ lexState = "lexing"
            /\ compiled = << >>

EofsReturned == Cardinality({k \in 1 .. Len(tokens) : tokens[k].name = "EOF"})

\* A call of lexer.next() (lexer.rs:99-165)
LexerNext ==
    /\ lexState = "lexing"
    /\ EofsReturned < MaxEofs
    /\ LET r == next(Lexer)
       IN  /\ lexState' = IF r.end = "returned" THEN "lexing" ELSE r.end
           /\ tokens' = IF r.end = "returned" THEN Append(tokens, r.tok) ELSE tokens
           /\ reader' = r.lx.reader
           /\ cur_ch' = r.lx.cur_ch
           /\ peek_ch' = r.lx.peek_ch
           /\ line' = r.lx.line
           /\ col' = r.lx.col
    /\ UNCHANGED <<source, compiled, vmVars, checked, asmVars, record>>

\* The tokens the lexer returns for a source, up to the first EOF token and at
\* most n of them; none from a call that does not return.
RECURSIVE LexFrom(_, _)
LexFrom(lx, n) ==
    IF n = 0 \/ next(lx).end # "returned" THEN << >>
    ELSE IF next(lx).tok.name = "EOF" THEN <<next(lx).tok>>
    ELSE <<next(lx).tok>> \o LexFrom(next(lx).lx, n - 1)

\* The tokens the lexer has returned, as the parser takes them: name and literal.
SourceTokens == [k \in 1..Len(tokens) |-> Tok(tokens[k].name, tokens[k].literal)]

SourceToks == {SourceTokens[k] : k \in 1..Len(SourceTokens)}

\* One instruction per mnemonic as it is written on a line, and the bytes it
\* assembles to.
Written(text, bytes) == [text |-> text, bytes |-> bytes]
Lines ==
    { Written(<<"N", "O", "O", "P">>,
              <<NOOP>>),
      Written(<<"H", "A", "L", "T">>,
              <<HALT>>),
      Written(<<"R", "T", "N">>,
              <<RTN>>),
      Written(<<"D", "E", "B", "U", "G">>,
              <<DEBUG>>),
      Written(<<"L", "O", "A", "D", " ", "%", "1", " ", "#", "2">>,
              <<LOADI, 1, 0, 2>>),
      Written(<<"S", "T", "R", " ", "%", "1", " ", "2">>,
              <<STRA, 1, 0, 2>>),
      Written(<<"X", "F", "E", "R", " ", "%", "1", " ", "%", "2">>,
              <<XFER, 1, 2>>),
      Written(<<"A", "D", "D", " ", "%", "1", " ", "#", "2">>,
              <<ADDI, 1, 0, 2>>),
      Written(<<"O", "R", " ", "%", "1", " ", "2">>,
              <<ORA, 1, 0, 2>>),
      Written(<<"A", "N", "D", " ", "%", "1", " ", "%", "2">>,
              <<ANDR, 1, 2>>),
      Written(<<"X", "O", "R", " ", "%", "1", " ", "#", "2">>,
              <<XORI, 1, 0, 2>>),
      Written(<<"R", "O", "T", "R", " ", "%", "1", " ", ",", " ", "#", "2">>,
              <<ROTR, 1, 2>>),
      Written(<<"R", "O", "T", "L", " ", "%", "1", " ", ",", " ", "#", "2">>,
              <<ROTL, 1, 2>>),
      Written(<<"J", "M", "P", " ", "%", "1", " ", "2">>,
              <<JMP, 1, 0, 2>>),
      Written(<<"J", "M", "P", "A", " ", "2">>,
              <<JMPA, 0, 2>>),
      Written(<<"L", "D", "S", "P", " ", "#", "2">>,
              <<LDSPI, 0, 2>>),
      Written(<<"P", "U", "S", "H", " ", "%", "1">>,
              <<PUSH, 1>>),
      Written(<<"P", "O", "P", " ", "%", "1">>,
              <<POP, 1>>),
      Written(<<"C", "A", "L", "L", " ", "2">>,
              <<CALLA, 0, 2>>) }

\* What follows the instruction on its line: the newline, or spaces, a comment
\* and the newline.
LineEnd == <<"\n">>
CommentEnd == <<" ", ";", " ", "c", "\n">>

LineSources == {l.text \o e : l \in Lines, e \in {LineEnd, CommentEnd}}

\* A line has been lexed and is about to be parsed: the parser's first token
\* is the first token of the line.
LineInit ==
    /\ source \in LineSources
    /\ reader = << >>
    /\ cur_ch = NUL
    /\ peek_ch = NUL
    /\ line = 1
    /\ col = 0
    /\ tokens = LexFrom(LexerNew(source), MaxLineToks)
    /\ lexState = "idle"
    /\ compiled = << >>
    /\ prog = ProgramNew
    /\ cur_tok = Tok(next(LexerNew(source)).tok.name, next(LexerNew(source)).tok.literal)
    /\ asmState = "parsing"
    /\ perr = "none" /\ errmsg = "none"
    /\ lerr = << >>
    /\ nstmts = 0
    /\ stmt = << >>
    /\ prestmt = ProgramNew
    /\ prelink = ProgramNew

\* compile_file is about to be called on a file that holds the bytes of a source.
CompileInit ==
    /\ source \in Sources
    /\ reader = << >>
    /\ cur_ch = NUL
    /\ peek_ch = NUL
    /\ line = 1
    /\ col = 0
    /\ tokens = << >>
    /\ lexState = "idle"
    /\ compiled = << >>

\* What compile_file comes to once Lexer::new has returned l0 and Parser::new's
\* two calls of lexer.next() have come to r1 and r2 (mod.rs:53-55): it builds
\* the parser, drops it, and returns an empty Vec (compiler/mod.rs:30-34).
Compiled(l0, r1, r2) ==
    LET last == IF r1.end # "returned" THEN r1 ELSE r2
    IN  /\ compiled' = IF last.end = "returned" THEN [res |-> "ok", code |-> << >>]
                       ELSE [res |-> last.end, code |-> << >>]
        /\ lexState' = IF last.end = "returned" THEN "dropped" ELSE last.end
        /\ tokens' = IF r1.end # "returned" THEN << >>
                     ELSE IF r2.end # "returned" THEN <<r1.tok>>
                     ELSE <<r1.tok, r2.tok>>
        /\ reader' = last.lx.reader
        /\ cur_ch' = last.lx.cur_ch
        /\ peek_ch' = last.lx.peek_ch
        /\ line' = last.lx.line
        /\ col' = last.lx.col

\* compiler::compile_file(filepath) (compiler/mod.rs:25-35)
CompileFile ==
    /\ lexState = "idle"
    /\ compiled = << >>
    /\ Compiled(LexerNew(source), next(LexerNew(source)),
                IF next(LexerNew(source)).end = "returned"
                THEN next(next(LexerNew(source)).lx)
                ELSE next(LexerNew(source)))
    /\ UNCHANGED <<source, vmVars, checked, asmVars, record>>

-----------------------------------------------------------------------------
(* S-records (srecord/src/lib.rs).                                          *)

\* enum SrecType (lib.rs:189-201)
SrecTypes ==
    {"SrecUnknown", "SrecHeader", "SrecData16", "SrecData24", "SrecData32",
     "SrecReserved", "SrecCount16", "SrecCount24", "SrecStart32", "SrecStart24",
     "SrecStart16"}

Line(t, a, d) ==
    [rec_type |-> t, address |-> a, data |-> d, checksum |-> -1, state |-> "built"]

\* A u8 `+=`: [val, trap]; a checked build panics when the exact sum leaves
\* 0..255, an unchecked build wraps.
AddU8(x, y) == [val |-> (x + y) % 256, trap |-> checked /\ x + y > 255]

\* The address byte length byte_count adds for a record type (lib.rs:297-302).
AddressLen(t) ==
    CASE t \in {"SrecHeader", "SrecData16", "SrecCount16", "SrecStart16"} -> 2
      [] t \in {"SrecData24", "SrecCount24", "SrecStart24"} -> 3
      [] t \in {"SrecData32", "SrecStart32"} -> 4
      [] OTHER -> 0

\* Line::byte_count (lib.rs:290-305): [val, trap].
byte_count(l) ==
    LET c1 == AddU8(Len(l.data) % 256, 1)
        c2 == AddU8(c1.val, AddressLen(l.rec_type))
    IN  [val |-> c2.val, trap |-> c1.trap \/ c2.trap]

\* (address >> (8 * k)) as u8
AddressByte(a, k) ==
    CASE k = 0 -> a % 256
      [] k = 1 -> (a \div 256) % 256
      [] k = 2 -> (a \div 65536) % 256
      [] OTHER -> (a \div 16777216) % 256

\* The address bytes gen_checksum adds after the low two (lib.rs:274-280).
UpperAddressBytes(l) ==
    CASE l.rec_type \in {"SrecData24", "SrecStart24"} -> AddressByte(l.address, 2)
      [] l.rec_type \in {"SrecData32", "SrecStart32"} ->
            AddressByte(l.address, 2) + AddressByte(l.address, 3)
      [] OTHER -> 0

\* The sum of d[lo..hi], by halves.
RECURSIVE SumRange(_, _, _)
SumRange(d, lo, hi) ==
    IF lo > hi THEN 0
    ELSE IF lo = hi THEN d[lo]
    ELSE SumRange(d, lo, (lo + hi) \div 2) + SumRange(d, (lo + hi) \div 2 + 1, hi)

SumBytes(d) == SumRange(d, 1, Len(d))

\* Line::gen_checksum (lib.rs:264-288): [val, trap]; its sums are Wrapping.
gen_checksum(l) ==
    [val |-> 255 - ((byte_count(l).val + AddressByte(l.address, 0)
                     + AddressByte(l.address, 1) + UpperAddressBytes(l)
                     + SumBytes(l.data)) % 256),
     trap |-> byte_count(l).trap]

\* Data of n zero bytes.
Zeros(n) == [i \in 1..n |-> 0]

DataBytes == {0, 1, 104, 255}

RECURSIVE DataUpTo(_)
DataUpTo(n) ==
    IF n = 0 THEN {<< >>}
    ELSE DataUpTo(n - 1)
           \cup {Append(d, b) : d \in {x \in DataUpTo(n - 1) : Len(x) = n - 1},
                                b \in DataBytes}

\* The data of test_header (lib.rs:330-336)
HelloData == <<104, 101, 108, 108, 111, 32, 32, 32, 32, 32, 0, 0>>

LongData == {Zeros(n) : n \in 250..256}

Datas == DataUpTo(MaxData) \cup {HelloData} \cup LongData

\* Addresses are u32; the largest taken here is 0x7FFFFFFF.
Addresses == {0, 3, 56, 65535, 65536, 16909060, 2147483647}

\* No Line is built in the other specifications.
SrecIdle ==
    record = [rec_type |-> "SrecUnknown", address |-> 0, data |-> << >>,
              checksum |-> -1, state |-> "idle"]

\* A Line has been built (lib.rs:170-186, 240-254).
SrecInit ==
    record \in {Line(t, a, d) : t \in SrecTypes, a \in Addresses, d \in Datas}

\* gen_checksum is called on the Line (lib.rs:314).
GenChecksum ==
    /\ record.state = "built"
    /\ record' = IF gen_checksum(record).trap
                 THEN [record EXCEPT !.state = "panicked"]
                 ELSE [record EXCEPT !.state = "done",
                                     !.checksum = gen_checksum(record).val]
    /\ UNCHANGED <<vmVars, checked, asmVars, lexVars>>

-----------------------------------------------------------------------------
(* Specifications *)

\* A VM that loads and runs an image.
VMNext == InstallCode \/ RunEnter \/ RunStep
InitVM == VMInit /\ AsmIdle /\ LexIdle /\ SrecIdle /\ checked \in BOOLEAN
SpecVM == InitVM /\ [][VMNext]_vars

\* The parser over the whole token alphabet, then the linker.
AsmNext ==
    \/ SkipLine(FullToks)
    \/ StmtInst(FullToks, MaxInst)
    \/ StmtInstNoImm(FullToks, MaxInst)
    \/ StmtInstNoDest(FullToks, MaxInst)
    \/ StmtInstNoImmNoDest(FullToks, MaxInst)
    \/ StmtNoArgs(FullToks, MaxInst)
    \/ StmtNum(FullToks, MaxInst)
    \/ StmtReg(FullToks, MaxInst)
    \/ StmtRegReg(FullToks, MaxInst)
    \/ StmtRegNum(FullToks, MaxInst)
    \/ StmtRegHalfNum(FullToks, MaxInst)
    \/ StmtLabel(FullToks, MaxInst)
    \/ StmtRmb(FullToks, MaxInst)
    \/ StmtOrg(FullToks, MaxInst)
    \/ StmtFcb(FullToks, MaxInst)
    \/ StmtFdb(FullToks, MaxInst)
    \/ StmtUnknown(MaxInst)
    \/ ParseEnd
    \/ Link
InitAsm == VMInit /\ AsmInit(FullToks) /\ LexIdle /\ SrecIdle /\ checked \in BOOLEAN
SpecAsm == InitAsm /\ [][AsmNext]_vars

\* The parser over sources of LOAD, ADD, OR, AND, XOR and STR statements.
InstNext ==
    \/ SkipLine(InstToks)
    \/ StmtInst(InstToks, MaxInst)
    \/ StmtInstNoImm(InstToks, MaxInst)
    \/ StmtUnknown(MaxInst)
    \/ ParseEnd
InitInst == VMInit /\ AsmInit(InstToks) /\ LexIdle /\ SrecIdle /\ checked \in BOOLEAN
SpecInst == InitInst /\ [][InstNext]_vars

\* The parser over sources of the statements that take a register.
RegNext ==
    \/ SkipLine(RegToks)
    \/ StmtInst(RegToks, MaxInst)
    \/ StmtInstNoImm(RegToks, MaxInst)
    \/ StmtInstNoDest(RegToks, MaxInst)
    \/ StmtInstNoImmNoDest(RegToks, MaxInst)
    \/ StmtReg(RegToks, MaxInst)
    \/ StmtRegReg(RegToks, MaxInst)
    \/ StmtRegNum(RegToks, MaxInst)
    \/ StmtRegHalfNum(RegToks, MaxInst)
    \/ StmtUnknown(MaxInst)
    \/ ParseEnd
InitReg == VMInit /\ AsmInit(RegToks) /\ LexIdle /\ SrecIdle /\ checked \in BOOLEAN
SpecReg == InitReg /\ [][RegNext]_vars

\* The parser over sources of labels, origins, reserved bytes and jumps, then
\* the linker.
LinkNext ==
    \/ SkipLine(LinkToks)
    \/ StmtNum(LinkToks, MaxStmts)
    \/ StmtLabel(LinkToks, MaxStmts)
    \/ StmtRmb(LinkToks, MaxStmts)
    \/ StmtOrg(LinkToks, MaxStmts)
    \/ StmtUnknown(MaxStmts)
    \/ ParseEnd
    \/ Link
InitLink == VMInit /\ AsmInit(LinkToks) /\ LexIdle /\ SrecIdle /\ checked \in BOOLEAN
SpecLink == InitLink /\ [][LinkNext]_vars

\* The parser over sources of JMPA statements with numeric operands.
NumNext ==
    \/ SkipLine(NumToks)
    \/ StmtNum(NumToks, MaxNums)
    \/ StmtUnknown(MaxNums)
    \/ ParseEnd
InitNum == VMInit /\ AsmInit(NumToks) /\ LexIdle /\ SrecIdle /\ checked \in BOOLEAN
SpecNum == InitNum /\ [][NumNext]_vars

\* compile_file over a byte source.
CompileNext == CompileFile

InitCompile == VMInit /\ AsmIdle /\ CompileInit /\ SrecIdle /\ checked \in BOOLEAN
SpecCompile == InitCompile /\ [][CompileNext]_vars

\* The lexer over a byte source, asked for tokens until it has returned MaxEofs
\* EOF tokens.
LexNext == LexerNext

InitLex == VMInit /\ AsmIdle /\ LexInit /\ SrecIdle /\ checked = TRUE
SpecLex == InitLex /\ [][LexNext]_vars

\* The parser over sources of instructions, the linker, and a VM that loads
\* and runs the program.
RunNext ==
    \/ SkipLine(RunToks)
    \/ StmtInst(RunToks, MaxRun)
    \/ StmtInstNoImm(RunToks, MaxRun)
    \/ StmtInstNoDest(RunToks, MaxRun)
    \/ StmtInstNoImmNoDest(RunToks, MaxRun)
    \/ StmtNoArgs(RunToks, MaxRun)
    \/ StmtNum(RunToks, MaxRun)
    \/ StmtReg(RunToks, MaxRun)
    \/ StmtRegReg(RunToks, MaxRun)
    \/ StmtRegNum(RunToks, MaxRun)
    \/ StmtRegHalfNum(RunToks, MaxRun)
    \/ StmtUnknown(MaxRun)
    \/ ParseEnd
    \/ Link
    \/ InstallLinked
    \/ RunEnter
    \/ RunStep
InitRun == VMInit /\ AsmInit(RunToks \ {EofTok}) /\ LexIdle /\ SrecIdle /\ checked \in BOOLEAN
SpecRun == InitRun /\ [][RunNext]_vars

\* The parser over the tokens of one line of source.
LineNext ==
    \/ SkipLine(SourceToks)
    \/ StmtInst(SourceToks, MaxLineStmts)
    \/ StmtInstNoImm(SourceToks, MaxLineStmts)
    \/ StmtInstNoDest(SourceToks, MaxLineStmts)
    \/ StmtInstNoImmNoDest(SourceToks, MaxLineStmts)
    \/ StmtNoArgs(SourceToks, MaxLineStmts)
    \/ StmtNum(SourceToks, MaxLineStmts)
    \/ StmtReg(SourceToks, MaxLineStmts)
    \/ StmtRegReg(SourceToks, MaxLineStmts)
    \/ StmtRegNum(SourceToks, MaxLineStmts)
    \/ StmtRegHalfNum(SourceToks, MaxLineStmts)
    \/ ParseEnd
InitLine == VMInit /\ LineInit /\ SrecIdle /\ checked \in BOOLEAN
SpecLine == InitLine /\ [][LineNext]_vars

\* The parser over sources whose operands name the write cursor.
HereNext ==
    \/ SkipLine(HereToks)
    \/ StmtNum(HereToks, MaxHere)
    \/ StmtRmb(HereToks, MaxHere)
    \/ StmtOrg(HereToks, MaxHere)
    \/ StmtUnknown(MaxHere)
    \/ ParseEnd
InitHere == VMInit /\ AsmInit(HereToks) /\ LexIdle /\ SrecIdle /\ checked \in BOOLEAN
SpecHere == InitHere /\ [][HereNext]_vars

\* The parser over sources of data directives.
DataNext ==
    \/ SkipLine(DataToks)
    \/ StmtRmb(DataToks, MaxInst)
    \/ StmtFcb(DataToks, MaxInst)
    \/ StmtFdb(DataToks, MaxInst)
    \/ StmtUnknown(MaxInst)
    \/ ParseEnd
InitData == VMInit /\ AsmInit(DataToks) /\ LexIdle /\ SrecIdle /\ checked \in BOOLEAN
SpecData == InitData /\ [][DataNext]_vars

\* gen_checksum over a Line.
SrecNext == GenChecksum

InitSrec == VMInit /\ AsmIdle /\ LexIdle /\ SrecInit /\ checked \in BOOLEAN
SpecSrec == InitSrec /\ [][SrecNext]_vars

-----------------------------------------------------------------------------
(* Properties of VM::run, checked under SpecVM *)

\* C1: whenever run's loop fetches a byte from 33 to 255 as an opcode, and the
\* operator does not end the process at the debugger prompt before the match,
\* that iteration ends the run with the unknown-opcode fault: the byte is not
\* carried out as an instruction (registers, memory, stack pointer and printer
\* keep their values) and the loop does not go on to the next opcode.
C1_UnknownOpcodeFaults ==
    [][(vmState = "running" /\ fetched' \in 33..255 /\ vmState' # "exited")
        => /\ vmState' = "faulted"
           /\ opcode' \in {NOOP, End}
           /\ UNCHANGED <<registers, memory, sp, printer, output>>]_vars

C1_Witness ==
    /\ vmState = "faulted"
    /\ fetched \in 34..255
    /\ steps >= 2

\* C2: the iteration that meets an opcode with no effect returns Err and leaves
\* output as it was (the printer buffer is not appended, so a faulted run of a
\* fresh VM has empty output); nothing runs after the fault; and output only
\* ever changes in the iteration that fetches HALT, by the printer buffer being
\* appended to it.
C2_FaultWithholdsOutput ==
    [][/\ (vmState' = "faulted" => output' = output /\ output' = << >>)
       /\ (vmState = "faulted" => UNCHANGED vars)
       /\ (output' # output =>
              /\ opcode' = HALT
              /\ vmState' = "halted"
              /\ output' = output \o printer)]_vars

C2_Witness ==
    /\ vmState = "faulted"
    /\ printer # << >>
    /\ output = << >>

\* C3: when run has returned Ok, output is the sequence of the non-zero values
\* the printer cell 0xFFFD held at the end of each instruction carried out
\* before HALT, in order; an instruction adds at most one character, and the
\* cell is 0 again after every instruction.  LOAD %1 #0x41; STR %1 0xFFFD; HALT
\* gives "A".
C3_OutputIsPortHistory ==
    /\ vmState = "halted" => output = portLog /\ Len(output) <= steps - 1
    /\ (vmState = "running" /\ steps > 0) => MemAt(memory, PRINTER_ADDR) = 0
    /\ vmState \in {"running", "faulted", "exited", "panicked"} => output = << >>
    /\ (vmState = "halted"
          /\ image = <<[org |-> 0, code |-> <<LOADI, 1, 0, 65, STRA, 1, 255, 253, HALT>>]>>)
        => output = <<65>>

C3_Witness ==
    /\ vmState = "halted"
    /\ output = <<66, 65>>

-----------------------------------------------------------------------------
(* Properties of link and of Program::validate, checked under SpecLink *)

\* Every label a pending link of p refers to is in p's label table.
RefsDefined(p) ==
    \A i \in 1..Len(p.parts) : \A o \in DOMAIN p.parts[i].link_map :
        p.parts[i].link_map[o].label \in DOMAIN p.labels

LinkReturned == asmState \in {"linked", "link_err", "panicked_link"}

\* (labels[L] + k) mod 65536 of the pending link at offset o of part i of p
Target(p, i, o) ==
    (p.labels[p.parts[i].link_map[o].label] + p.parts[i].link_map[o].offset) % 65536

\* C4: when every referenced label is defined, link returns Ok, the bytes at o
\* and o+1 of each pending link's region are the big-endian (labels[L] + k) mod
\* 65536, and every other byte is as before.
C4_LinkPatchesEveryLink ==
    (LinkReturned /\ RefsDefined(prelink)) =>
        /\ asmState = "linked"
        /\ \A i \in 1..Len(prelink.parts) :
             /\ Len(prog.parts[i].bytes) = Len(prelink.parts[i].bytes)
             /\ \A o \in DOMAIN prelink.parts[i].link_map :
                  /\ o + 2 <= Len(prog.parts[i].bytes)
                  /\ prog.parts[i].bytes[o + 1] = Hi(Target(prelink, i, o))
                  /\ prog.parts[i].bytes[o + 2] = Lo(Target(prelink, i, o))
             /\ \A b \in 1..Len(prelink.parts[i].bytes) :
                  (b - 1 \notin DOMAIN prelink.parts[i].link_map
                      /\ b - 2 \notin DOMAIN prelink.parts[i].link_map)
                  => prog.parts[i].bytes[b] = prelink.parts[i].bytes[b]

\* C5: when some pending link refers to a label that is not in the label table,
\* link does not return Ok, the error it returns names a label that is not in
\* the table, and no region's bytes have changed.
C5_LinkAllOrNothing ==
    (LinkReturned /\ ~RefsDefined(prelink)) =>
        /\ asmState # "linked"
        /\ asmState = "link_err" => lerr \notin DOMAIN prelink.labels
        /\ \A i \in 1..Len(prelink.parts) : prog.parts[i].bytes = prelink.parts[i].bytes

\* The addresses the bytes of a region occupy, past 0xFFFF on from 0.
Covered(part) == {(part.start_pc + k) % 65536 : k \in 0..(Len(part.bytes) - 1)}

ValidateReturned == asmState \in {"parsed", "invalid", "panicked_validate"}

\* C6: parse ends with a validation error whenever, in the regions sorted by
\* origin, a region's origin + length exceeds the next region's origin; regions
\* at 0 (16 bytes) and 32 validate; and whenever parse succeeds no address is
\* covered by the bytes of two regions, a region running past 0xFFFF included.
C6_RegionsDisjoint ==
    /\ (ValidateReturned
          /\ \E i \in 1..(Len(prog.parts) - 1) :
                prog.parts[i].start_pc + Len(prog.parts[i].bytes) > prog.parts[i + 1].start_pc)
       => (asmState = "invalid" /\ perr = "ValidationError")
    /\ (ValidateReturned /\ Len(prog.parts) = 2
          /\ prog.parts[1].start_pc = 0 /\ Len(prog.parts[1].bytes) = 16
          /\ prog.parts[2].start_pc = 32)
       => asmState = "parsed"
    /\ asmState = "parsed" =>
          \A i, j \in 1..Len(prog.parts) :
              i # j => Covered(prog.parts[i]) \cap Covered(prog.parts[j]) = {}

-----------------------------------------------------------------------------
(* Properties of the statement parsers *)

\* A statement has been handled and the program is as it left it.
AfterStmt == stmt # << >> /\ asmState \in {"parsing", "parse_err", "panicked"}

Name(k) == IF k <= Len(stmt) THEN stmt[k].name ELSE "none"

\* The region a statement writes to, before and after it.
PartBefore == prestmt.parts[prestmt.part_i]
PartAfter == prog.parts[prog.part_i]

\* The bytes the statement appended.
Appended == SubSeq(PartAfter.bytes, Len(PartBefore.bytes) + 1, Len(PartAfter.bytes))

\* The index in stmt of the token the statement handed to parse_address, 0 if
\* it handed none or is a list of several items.
AddrOperandIndex ==
    CASE Name(1) = "JMPA" /\ Len(stmt) >= 2 -> 2
      [] Name(1) = "FDB" /\ Len(stmt) \in {2, 3} /\ Name(2) # "STRING" -> 2
      [] Name(1) \in {"CALL", "LDSP"} /\ Name(2) \in {"NUMBER", "IDENT"} -> 2
      [] Name(1) = "LDSP" /\ Name(2) = "IMMEDIATE" /\ Len(stmt) >= 3 -> 3
      [] Name(1) \in {"LOAD", "ADD", "OR", "AND", "XOR", "STR"}
            /\ Name(3) \in {"NUMBER", "IDENT"} -> 3
      [] Name(1) \in {"LOAD", "ADD", "OR", "AND", "XOR"}
            /\ Name(3) = "IMMEDIATE" /\ Len(stmt) >= 4 -> 4
      [] Name(1) = "JMP" /\ Len(stmt) >= 3 -> 3
      [] Name(1) \in {"ROTR", "ROTL"} /\ Len(stmt) >= 5 -> 5
      [] OTHER -> 0

\* The position of the address operand inside the instruction's bytes.
OperandPosition ==
    CASE Name(1) = "FDB" -> 0
      [] Name(1) \in {"JMPA", "CALL", "LDSP"} -> 1
      [] OTHER -> 2

\* An IDENT literal of the form L, L+N or L-N with N an i16 and L not "$".
LabelForm(lit) ==
    LET sp1 == SplitIdent(lit, OrDefault(Find(lit, "+")), OrDefault(Find(lit, "-")))
    IN  sp1.ok /\ sp1.label # <<"$">>

LabelOf(lit) == SplitIdent(lit, OrDefault(Find(lit, "+")), OrDefault(Find(lit, "-")))

\* C7: a statement whose address operand is an IDENT of the form L, L+N or L-N,
\* L not "$", gets the value 0 for it and leaves in the active region exactly
\* one more pending link, with label L and offset +N / -N (0 when absent), at
\* byte offset (write cursor - region origin + operand position), taken mod
\* 65536.
C7_IdentRecordsLink ==
    (AfterStmt /\ AddrOperandIndex > 0 /\ Name(AddrOperandIndex) = "IDENT"
        /\ LabelForm(stmt[AddrOperandIndex].literal))
    => LET key == ((PartBefore.pc - PartBefore.start_pc) % 65536) + OperandPosition
           ref == LabelOf(stmt[AddrOperandIndex].literal)
       IN  /\ asmState # "panicked"
           /\ key \notin DOMAIN PartBefore.link_map
           /\ PartAfter.link_map = MapPut(PartBefore.link_map, key,
                                          [label |-> ref.label, offset |-> ref.offset])
           /\ key + 1 <= Len(PartAfter.bytes)
           /\ PartAfter.bytes[key + 1] = 0
           /\ Name(1) \notin {"ROTR", "ROTL"} =>
                 (key + 2 <= Len(PartAfter.bytes) /\ PartAfter.bytes[key + 2] = 0)

\* The statement is a LOAD, ADD, OR, AND, XOR or STR whose destination operand
\* parse_register accepted.
HasDest(names) == AfterStmt /\ Name(1) \in names /\ Len(stmt) >= 3 /\ parse_register(stmt[2]).ok

Inst5 == {"LOAD", "ADD", "OR", "AND", "XOR"}

AddrOpcode ==
    CASE Name(1) = "LOAD" -> LOADA [] Name(1) = "ADD" -> ADDA [] Name(1) = "OR" -> ORA
      [] Name(1) = "AND" -> ANDA [] Name(1) = "XOR" -> XORA [] OTHER -> STRA
ImmOpcode ==
    CASE Name(1) = "LOAD" -> LOADI [] Name(1) = "ADD" -> ADDI [] Name(1) = "OR" -> ORI
      [] Name(1) = "AND" -> ANDI [] OTHER -> XORI
RegOpcode ==
    CASE Name(1) = "LOAD" -> LOADR [] Name(1) = "ADD" -> ADDR [] Name(1) = "OR" -> ORR
      [] Name(1) = "AND" -> ANDR [] Name(1) = "XOR" -> XORR [] OTHER -> STRR

\* The statement appended exactly the 4 bytes [op, d, hi, lo], d its destination.
Appended4(op) ==
    /\ Len(Appended) = 4
    /\ Appended[1] = op
    /\ Appended[2] = parse_register(stmt[2]).val

\* The statement appended exactly the 3 bytes [op, d, s].
Appended3(op) ==
    /\ Len(Appended) = 3
    /\ Appended[1] = op
    /\ Appended[2] = parse_register(stmt[2]).val
    /\ Appended[3] = parse_register(stmt[3]).val

Rejected == asmState = "parse_err" /\ prog = prestmt

\* The parts of C8 that do not depend on the operand's value: a register
\* source, any other token after the destination, and STR with IMMEDIATE.
C8_Forms ==
    /\ (HasDest(Inst5 \cup {"STR"}) /\ Name(3) = "REGISTER" /\ parse_register(stmt[3]).ok)
       => Appended3(RegOpcode)
    /\ (HasDest(Inst5) /\ Name(3) \notin {"NUMBER", "IDENT", "IMMEDIATE", "REGISTER"})
       => Rejected
    /\ (HasDest({"STR"}) /\ Name(3) \notin {"NUMBER", "IDENT", "REGISTER"}) => Rejected

OperandAt(k) == parse_address(prestmt, stmt[k], 2)

\* The statement appended exactly [op, d, hi, lo], hi and lo the bytes of the
\* value parse_address returned for its k-th token.
Appended4Of(op, k) ==
    /\ Appended4(op)
    /\ Appended[3] = Hi(OperandAt(k).val)
    /\ Appended[4] = Lo(OperandAt(k).val)

OneRegister ==
    {LOADI, LOADA, STRA, ADDI, ADDA, ORI, ORA, ANDI, ANDA, XORI, XORA, JMP, ROTR, ROTL,
     PUSH, POP, CALLR, LDSPR}
TwoRegisters == {LOADR, STRR, XFER, ADDR, ORR, ANDR, XORR}

\* The indices in stmt of the tokens the statement handed to parse_register.
RegisterOperands ==
    {k \in {2} : Name(1) \in {"LOAD", "ADD", "OR", "AND", "XOR", "STR", "XFER", "JMP",
                             "ROTR", "ROTL", "PUSH", "POP"}
                 \/ (Name(1) \in {"CALL", "LDSP"} /\ Name(2) = "REGISTER")}
    \cup {k \in {3} : Name(1) \in {"LOAD", "ADD", "OR", "AND", "XOR", "STR", "XFER"}
                      /\ parse_register(stmt[2]).ok
                      /\ (Name(3) = "REGISTER" \/ Name(1) = "XFER")}

\* A literal that is one hex digit of value at most 13.
RegisterDigit(lit) == Len(lit) = 1 /\ lit[1] \in DOMAIN HexDigit /\ HexDigit[lit[1]] <= 13

\* C9: every register byte a statement appends is in 0..13, and a statement
\* with a REGISTER operand whose literal is not one hex digit of value at most
\* 13 fails with a parse error and appends nothing.
C9_RegisterRange ==
    (AfterStmt /\ Name(1) \notin {"FCB", "FDB", "RMB"}) =>
        /\ (Len(Appended) >= 2 /\ Appended[1] \in OneRegister \cup TwoRegisters)
           => Appended[2] \in 0..13
        /\ (Len(Appended) >= 3 /\ Appended[1] \in TwoRegisters) => Appended[3] \in 0..13
        /\ \A k \in RegisterOperands :
              (k <= Len(stmt) /\ stmt[k].name = "REGISTER" /\ ~RegisterDigit(stmt[k].literal))
              => (Rejected /\ perr = "InvalidCode")

C9_Witness ==
    /\ AfterStmt
    /\ Rejected
    /\ Name(1) = "XFER"
    /\ stmt[2] = Tok("REGISTER", <<"D">>)
    /\ stmt[3] = Tok("REGISTER", <<"S", "P">>)

\* C10: parse ends by returning Ok or Err, never in a panic; an Err is the
\* error of the statement that raised it, and nothing is parsed after it.
C10_ParseReturns ==
    /\ asmState \notin {"panicked", "panicked_validate"}
    /\ asmState = "parse_err" => (perr \in {"InvalidCode", "ExpectedToken"} /\ stmt # << >>)
    /\ asmState = "invalid" => perr = "ValidationError"

-----------------------------------------------------------------------------
(* Properties of the instruction set, checked under SpecVM.  The programs   *)
(* are told apart by their shape: one section at 0 whose bytes are `Code`.  *)

Code == image[1].code
OneSection == image # << >> /\ Len(image) = 1 /\ image[1].org = 0

\* The 16-bit big-endian value at bytes i, i+1 of c.
Word(c, i) == c[i] * 256 + c[i + 1]

\* The width of register r and its natural-width value in regs.
Width(r) == IF r \in 10..13 THEN 2 ELSE 1
RegValue(regs, r) ==
    IF r \in 10..13 THEN regs[2 * (r - 10) + 2] * 256 + regs[2 * (r - 10) + 3]
    ELSE regs[r]

\* What a register of width w keeps of the 16-bit value v.
Kept(w, v) == IF w = 2 THEN v ELSE v % 256

\* The first operand byte of the instruction at pc.
Operand1 == MemAt(memory, (pc + 1) % 65536)

\* run has neither panicked nor returned Err
RunsOn == vmState \in {"new", "loaded", "running", "halted"}

\* The iteration carries out a PUSH of register r with no wraparound of SP:
\* SP goes down by the width first, then the value is at the new SP, high byte
\* first (the printer cell is cleared again when the iteration ends).
PushStep ==
    LET r == Operand1
        w == Width(r)
        v == RegValue(registers, r)
        hi == IF w = 2 THEN v \div 256 ELSE v
    IN  (vmState = "running" /\ fetched' = PUSH /\ vmState' # "exited"
            /\ r <= 13 /\ sp >= w /\ pc <= 65533)
        => /\ vmState' = "running"
           /\ sp' = sp - w
           /\ pc' = pc + 2
           /\ registers' = registers
           /\ sp' # PRINTER_ADDR => MemAt(memory', sp') = hi
           /\ (w = 2 /\ sp' + 1 # PRINTER_ADDR) => MemAt(memory', sp' + 1) = v % 256
           /\ \A a \in (DOMAIN memory \cup DOMAIN memory') \ {sp', sp' + w - 1, PRINTER_ADDR} :
                  MemAt(memory', a) = MemAt(memory, a)

\* The iteration carries out a POP into register r with no wraparound of SP:
\* the value is read at SP, high byte first, then SP goes up by the width.
PopStep ==
    LET r == Operand1
        w == Width(r)
        v == IF w = 2 THEN MemAt(memory, sp) * 256 + MemAt(memory, sp + 1)
             ELSE MemAt(memory, sp)
    IN  (vmState = "running" /\ fetched' = POP /\ vmState' # "exited"
            /\ r <= 13 /\ sp + w <= 65535 /\ pc <= 65533)
        => /\ vmState' = "running"
           /\ sp' = sp + w
           /\ pc' = pc + 2
           /\ RegValue(registers', r) = v

\* Code is LDSP #s; LOAD %x #v; PUSH %x; POP %y; HALT
IsPushPop ==
    /\ OneSection /\ Len(Code) = 12
    /\ Code[1] = LDSPI /\ Code[4] = LOADI /\ Code[8] = PUSH /\ Code[10] = POP
    /\ Code[12] = HALT /\ Code[9] = Code[5]

\* Code is LDSP #s; LOAD %A #v; PUSH %A; PUSH %x; POP %y; POP %B; HALT
IsPushPop2 ==
    /\ OneSection /\ Len(Code) = 16
    /\ Code[1] = LDSPI /\ Code[4] = LOADI /\ Code[5] = REG_A
    /\ Code[8] = PUSH /\ Code[9] = REG_A /\ Code[10] = PUSH /\ Code[12] = POP
    /\ Code[14] = POP /\ Code[15] = REG_B /\ Code[16] = HALT

\* The n stack bytes below s are inside memory (no wraparound) and are none of
\* the bytes of the instructions still to be carried out (addresses from..to).
StackApart(s, n, from, to) == s >= n /\ (s <= from \/ s - n > to)

\* PUSHes followed by POPs of the same widths in reverse order give each POP
\* the value of its PUSH and leave SP where it was; `port` tells whether the
\* stack bytes may include the printer cell.
PushPopRoundTrip(port) ==
    /\ (IsPushPop /\ Width(Code[5]) = Width(Code[11])
          /\ StackApart(Word(Code, 2), Width(Code[5]), 7, 11)
          /\ (port \/ PRINTER_ADDR \notin (Word(Code, 2) - Width(Code[5]))..(Word(Code, 2) - 1)
                   \/ (Width(Code[5]) = 2 /\ PRINTER_ADDR = Word(Code, 2) - 2 /\ Code[6] = 0)))
        => /\ RunsOn
           /\ vmState = "halted" =>
                 /\ RegValue(registers, Code[11]) = Kept(Width(Code[5]), Word(Code, 6))
                 /\ sp = Word(Code, 2)
    /\ (IsPushPop2 /\ Width(Code[11]) = Width(Code[13])
          /\ StackApart(Word(Code, 2), 2 + Width(Code[11]), 7, 15)
          /\ (port \/ PRINTER_ADDR \notin (Word(Code, 2) - 2 - Width(Code[11]))..(Word(Code, 2) - 1)))
        => /\ RunsOn
           /\ vmState = "halted" =>
                 /\ RegValue(registers, Code[13])
                      = (IF Code[11] = REG_A THEN Word(Code, 6) ELSE Code[6])
                 /\ RegValue(registers, REG_B) = Word(Code, 6)
                 /\ sp = Word(Code, 2)

\* C11 as claimed: PUSH decrements SP by the register's width and then writes
\* the value at the new SP, POP reads at SP and then increments it; hence after
\* PUSHes followed by POPs of the same widths in reverse order, with no
\* wraparound, each POP has yielded the value of its PUSH and SP is back at its
\* starting value, wherever in memory the stack lies.
C11_PushPop_Claimed == PushPopRoundTrip(TRUE)

\* C11: PUSH decrements SP by the register's width and then writes the value at
\* the new SP (high byte first), POP reads at SP and then increments it; after
\* PUSHes followed by POPs of the same widths in reverse order, with no
\* wraparound and no non-zero byte pushed onto the printer cell 0xFFFD, each POP
\* has yielded the value of its PUSH and SP is back at its starting value.
C11_PushPop == [](PushPopRoundTrip(FALSE)) /\ [][PushStep /\ PopStep]_vars

C11_Witness ==
    /\ vmState = "halted" /\ IsPushPop2
    /\ Code[11] = 2 /\ Code[13] = 1 /\ Word(Code, 2) = 256
    /\ sp = 256 /\ registers[1] = 65 /\ RegValue(registers, REG_B) = 16706

\* The iteration carries out a CALL (CALLA with a 16-bit target, CALLR with a
\* register holding it): the address of the instruction after the CALL is at
\* the decremented SP, high byte first, and PC is the target.
CallStep ==
    LET len == IF fetched' = CALLA THEN 3 ELSE 2
        target == IF fetched' = CALLA
                  THEN MemAt(memory, (pc + 1) % 65536) * 256 + MemAt(memory, (pc + 2) % 65536)
                  ELSE RegValue(registers, Operand1)
        ret == (pc + len) % 65536
    IN  (vmState = "running" /\ fetched' \in {CALLA, CALLR} /\ vmState' # "exited"
            /\ (fetched' = CALLR => Operand1 <= 13))
        => /\ vmState' = "running"
           /\ sp' = (sp - 2) % 65536
           /\ pc' = target
           /\ MemAt(memory', sp') = ret \div 256
           /\ MemAt(memory', (sp' + 1) % 65536) = ret % 256

\* The iteration carries out RTN: two bytes are popped into PC.
RtnStep ==
    (vmState = "running" /\ fetched' = RTN /\ vmState' # "exited")
        => /\ vmState' = "running"
           /\ pc' = MemAt(memory, sp) * 256 + MemAt(memory, (sp + 1) % 65536)
           /\ sp' = (sp + 2) % 65536

\* The program p, with SP set to s before its calls, runs to the HALT at
\* address h with SP back at s.
ReturnsTo(p, s, h) ==
    (OneSection /\ Code = p) => RunsOn /\ (vmState = "halted" => pc = h + 1 /\ sp = s)

\* C12: CALLA and CALLR push the address of the instruction following the CALL
\* (two bytes, high byte first, at the decremented SP) and set PC to the target;
\* RTN pops two bytes into PC; hence a CALL whose target is RTN comes back to
\* the instruction after the CALL with SP as before the CALL, and nested CALLs
\* return in last-in-first-out order.
C12_CallReturn ==
    /\ [][CallStep /\ RtnStep]_vars
    /\ [](/\ ReturnsTo(CallReturn0, 0, 3)
          /\ \A s \in StackTops :
                /\ ReturnsTo(CallReturn(s), s, 6)
                /\ ReturnsTo(CallRegister(s), s, 9)
                /\ ReturnsTo(CallNested(s), s, 6))

\* The natural-width value memory holds at address a for a register of width w.
MemValue(mem, w, a) ==
    IF w = 2 THEN MemAt(mem, a) * 256 + MemAt(mem, (a + 1) % 65536) ELSE MemAt(mem, a)

\* C13: STORE is the inverse of LOAD in both forms: after STR %r a the value of
\* r is in memory at a and LOAD %r a leaves r as it was; after STR %r %s
\* (operand bytes r, s) the value of r is in memory at the address register s
\* holds and LOAD %r %s leaves r as it was (r and s distinct, the address not
\* the printer port).
C13_StoreInvertsLoad ==
    OneSection =>
        /\ \A r \in {1, REG_A}, v \in {16706, 255}, a \in {128, 512} :
              (Code = StoreLoad(r, v, a))
                => /\ RunsOn
                   /\ vmState = "halted" =>
                         /\ RegValue(registers, r) = Kept(Width(r), v)
                         /\ MemValue(memory, Width(r), a) = Kept(Width(r), v)
        /\ \A r \in {1, REG_A}, s \in {3, REG_B}, v \in {16706, 255} :
              (Code = StoreLoadReg(r, s, v, 128))
                => /\ RunsOn
                   /\ vmState = "halted" =>
                         /\ RegValue(registers, r) = Kept(Width(r), v)
                         /\ MemValue(memory, Width(r), 128) = Kept(Width(r), v)

\* (a + b) mod 2^(8w): what a register of width w holds after an addition.
SumOf(w, a, b) == (a + b) % (IF w = 2 THEN 65536 ELSE 256)

\* The run of program p ends at HALT with the sum in register d.
AddsUp(p, d, a, b) ==
    (Code = p) => /\ RunsOn
                  /\ vmState = "halted" => RegValue(registers, d) = SumOf(Width(d), a, b)

\* C14: ADDI, ADDA and ADDR leave (destination + operand) mod 65536 in a paired
\* destination and (destination + operand) mod 256 in a single one, whatever
\* the values; a sum that overflows never faults or aborts the run.
C14_AddWraps ==
    OneSection =>
        /\ \A d \in {1, REG_A}, x \in {65535, 5}, y \in {1, 257} :
              AddsUp(AddImmediate(d, x, y), d, Kept(Width(d), x), y)
        /\ \A d \in {1, REG_A}, x \in {65535, 5} :
              AddsUp(AddAddress(d, x, 0), d, Kept(Width(d), x),
                     IF Width(d) = 2 THEN LOADI * 256 + d ELSE LOADI)
        /\ \A d \in {1, REG_A}, s \in {5, REG_C}, x \in {65535, 5}, y \in {1, 257} :
              AddsUp(AddRegister(d, s, x, y), d, Kept(Width(d), x), Kept(Width(s), y))

\* The 16-bit operand of the instruction at pc.
Operand16 == MemAt(memory, (pc + 2) % 65536) * 256 + MemAt(memory, (pc + 3) % 65536)

\* PUSH and POP move SP by the width modulo 65536.
WrapStack ==
    (vmState = "running" /\ fetched' \in {PUSH, POP} /\ vmState' # "exited"
        /\ Operand1 <= 13 /\ pc <= 65533)
    => /\ vmState' = "running"
       /\ sp' = (IF fetched' = PUSH THEN sp - Width(Operand1) ELSE sp + Width(Operand1)) % 65536

\* A two-byte write or read at 0xFFFF uses cells 0xFFFF and 0x0000.
WrapWord ==
    (vmState = "running" /\ fetched' \in {STRA, LOADA} /\ vmState' # "exited"
        /\ Operand1 \in 10..13 /\ Operand16 = 65535 /\ pc <= 65531)
    => /\ vmState' = "running"
       /\ fetched' = STRA =>
             /\ MemAt(memory', 65535) = RegValue(registers, Operand1) \div 256
             /\ MemAt(memory', 0) = RegValue(registers, Operand1) % 256
       /\ fetched' = LOADA =>
             RegValue(registers', Operand1) = MemAt(memory, 65535) * 256 + MemAt(memory, 0)

\* Fetching the opcode at PC = 0xFFFF leaves PC = 0.
WrapFetch ==
    (vmState = "running" /\ pc = 65535 /\ vmState' # "exited")
    => /\ vmState' # "panicked"
       /\ fetched' \in {NOOP, HALT} \cup (End..255) => pc' = 0

\* A section whose bytes run past 0xFFFF is loaded on from address 0.
WrapInstall ==
    (vmState = "new" /\ vmState' # "new")
    => /\ vmState' = "loaded"
       /\ LET k == Len(image')
              sec == image'[k]
          IN  \A i \in 1..Len(sec.code) :
                  MemAt(memory', (sec.org + i - 1) % 65536) = sec.code[i]

\* C15: the VM's address arithmetic wraps modulo 65536 and never faults: PUSH
\* leaves SP = (SP - width) mod 65536 even from SP = 0, POP leaves
\* SP = (SP + width) mod 65536, a two-byte access at 0xFFFF uses cells 0xFFFF
\* and 0x0000, a fetch at PC = 0xFFFF leaves PC = 0, and a section running past
\* 0xFFFF is loaded on from address 0.
C15_AddressesWrap == [][WrapStack /\ WrapWord /\ WrapFetch /\ WrapInstall]_vars

\* Registers and SP are as they were, and so is every memory cell the
\* instruction could reach (the printer check that ends the iteration clears
\* cell 0xFFFD, whatever the instruction was).
NothingElseChanged ==
    /\ registers' = registers
    /\ sp' = sp
    /\ \A a \in (DOMAIN memory \cup DOMAIN memory') \ {PRINTER_ADDR} :
          MemAt(memory', a) = MemAt(memory, a)
    /\ MemAt(memory', PRINTER_ADDR) = 0

\* The iteration carries out JMP r, addr.
JmpStep ==
    (vmState = "running" /\ fetched' = JMP /\ vmState' # "exited"
        /\ Operand1 <= 13 /\ pc <= 65531)
    => /\ vmState' = "running"
       /\ pc' = IF RegValue(registers, Operand1) = registers[0] THEN Operand16 ELSE pc + 4
       /\ NothingElseChanged

\* The iteration carries out JMPA addr.
JmpaStep ==
    (vmState = "running" /\ fetched' = JMPA /\ vmState' # "exited" /\ pc <= 65532)
    => /\ vmState' = "running"
       /\ pc' = MemAt(memory, pc + 1) * 256 + MemAt(memory, pc + 2)
       /\ NothingElseChanged

\* What register 0 and register r hold when JumpIf(r, z, v) reaches its JMP.
JumpTaken(r, z, v) == Kept(Width(r), v) = (IF r = 0 THEN v % 256 ELSE z)

Bit(v, i) == (v \div (2 ^ i)) % 2

RECURSIVE Rotated(_, _, _)
Rotated(v, k, i) ==
    IF i = 16 THEN 0
    ELSE Bit(v, (i + 16 - k) % 16) * (2 ^ i) + Rotated(v, k, i + 1)

RotatedLeft(v, n) == Rotated(v, n % 16, 0)
RotatedRight(v, n) == Rotated(v, (16 - (n % 16)) % 16, 0)

\* The registers with the pair r holding v.
WithPair(regs, r, v) ==
    LET hi == 2 + 2 * (r - REG_A)
    IN  [regs EXCEPT ![hi] = v \div 256, ![hi + 1] = v % 256]

\* The iteration carries out ROTL or ROTR: operand 1 the register, operand 2
\* the place count.
RotStep ==
    (vmState = "running" /\ fetched' \in {ROTL, ROTR} /\ vmState' # "exited" /\ pc <= 65532)
    => LET r == Operand1
           n == MemAt(memory, pc + 2)
           v == RegValue(registers, r)
       IN  /\ vmState' = "running"
           /\ registers' =
                IF r \in REG_A .. REG_D
                THEN WithPair(registers, r,
                              IF fetched' = ROTL THEN RotatedLeft(v, n) ELSE RotatedRight(v, n))
                ELSE registers

\* What the rotate programs leave in register x: the program is recognised
\* by its shape and its parameters are read off its bytes.
RotateResults ==
    (Len(Code) >= 8 /\ Code[1] = LOADI /\ Code[5] \in {ROTL, ROTR}) =>
        LET x == Code[2]
            v == Word(Code, 3)
            n == Code[7]
            loaded == Kept(Width(x), v)
            pair == x \in REG_A .. REG_D
            w == IF Code = RotateBack(x, v, n) THEN loaded
                 ELSE IF ~pair THEN loaded
                 ELSE IF Code[5] = ROTL THEN RotatedLeft(loaded, n)
                 ELSE RotatedRight(loaded, n)
        IN  (/\ x \in RotatedRegs /\ v \in RotatedValues /\ n \in Places
             /\ Code \in {RotateLeft(x, v, n), RotateRight(x, v, n), RotateBack(x, v, n)})
            => /\ RunsOn
               /\ vmState = "halted" => RegValue(registers, x) = w

\* C17: ROTL and ROTR on a paired register replace its 16-bit value by that
\* value rotated left / right by (places mod 16) bit positions, for every place
\* count 0..255: 0x8001 rotated left by 1 is 0x0003 and right by 1 is 0xC000,
\* ROTL by n followed by ROTR by n restores the value; on a single register
\* ROTL / ROTR change no register.
C17_Rotate ==
    /\ [][RotStep]_vars
    /\ [](OneSection => RotateResults)
    /\ [](RotatedLeft(32769, 1) = 3 /\ RotatedRight(32769, 1) = 49152)

C17_Witness ==
    /\ vmState = "halted" /\ OneSection /\ Code = RotateLeft(REG_A, 32769, 17)
    /\ registers[2] = 0 /\ registers[3] = 3

\* The sections of the image that have a byte for address a, and the byte the
\* k-th section has for it.
Covering(a) ==
    {k \in 1 .. Len(image) :
        \E i \in 1 .. Len(image[k].code) : (image[k].org + i - 1) % 65536 = a}
ByteFor(k, a) ==
    image[k].code[CHOOSE i \in 1 .. Len(image[k].code) : (image[k].org + i - 1) % 65536 = a]
CoveredCells ==
    UNION {{(image[k].org + i - 1) % 65536 : i \in 1 .. Len(image[k].code)} :
              k \in 1 .. Len(image)}
Latest(ks) == CHOOSE k \in ks : \A j \in ks : j <= k

\* C18: after install_code on a fresh VM every byte i of every section is in
\* memory at address origin + i unless a later section has a byte for that
\* address, in which case the cell holds the byte of the section latest in list
\* order; every uncovered cell is 0; PC is memory[0xFFFE] * 256 + memory[0xFFFF]
\* as read after all sections were copied; registers and SP are unchanged.
C18_InstallCode ==
    (vmState = "loaded") =>
        /\ \A a \in CoveredCells : MemAt(memory, a) = ByteFor(Latest(Covering(a)), a)
        /\ \A a \in (DOMAIN memory) \ CoveredCells : memory[a] = 0
        /\ pc = MemAt(memory, 65534) * 256 + MemAt(memory, 65535)
        /\ registers = [i \in 0 .. (NUM_OF_REGISTERS - 1) |-> 0]
        /\ sp = 0

C18_Witness ==
    /\ vmState = "loaded"
    /\ image = <<[org |-> 65534, code |-> <<0, 4>>],
                 [org |-> 0, code |-> <<LOADI, 1, 0, 65, HALT>>],
                 [org |-> 3, code |-> <<0, 0, NOOP, HALT>>]>>
    /\ pc = 4 /\ MemAt(memory, 3) = 0 /\ MemAt(memory, 4) = 0 /\ MemAt(memory, 5) = NOOP
    /\ MemAt(memory, 6) = HALT /\ MemAt(memory, 0) = LOADI

-----------------------------------------------------------------------------
(* Properties of the lexer, checked under SpecLex *)

\* How many of the bytes of s are b, and how many of the tokens returned so far
\* have the name n.
BytesOf(s, b) == Cardinality({i \in 1 .. Len(s) : s[i] = b})
TokensNamed(n) == Cardinality({k \in 1 .. Len(tokens) : tokens[k].name = n})

\* The source has no string literal, no comment and no byte that ends the input
\* early, so every newline of it is one the lexer meets between tokens.
PlainSource == \A i \in 1 .. Len(source) : source[i] \notin {"\"", ";", NUL, HighByte}

\* The whole source has been lexed.
LexedToEof == lexState = "lexing" /\ EofsReturned >= 1

\* C19: every newline byte of the source that is not inside a string literal
\* or a comment gives exactly one END_INST token and advances the line counter
\* by one, whatever precedes it (spaces or tabs, a label, a register, a number
\* or an identifier): once such a source is lexed to its end there are as many
\* END_INST tokens as newline bytes, each on the line it ends, and the line
\* counter is one more than the number of newline bytes.
C19_Newlines ==
    (LexedToEof /\ PlainSource) =>
        /\ TokensNamed("END_INST") = BytesOf(source, "\n")
        /\ line = 1 + BytesOf(source, "\n")
        /\ \A k \in 1 .. Len(tokens) :
              tokens[k].name = "END_INST" =>
                  tokens[k].line =
                      1 + Cardinality({j \in 1 .. (k - 1) : tokens[j].name = "END_INST"})

\* C20: each numeric literal form lexes as one NUMBER token whose literal is
\* the whole literal: 123, 0x7B and !7B each give a single NUMBER token, at the
\* start of the source, after `#` or after a space, and no ILLEGAL token.
C20_NumberLiterals ==
    \A pre \in {<< >>, <<"#">>, <<" ">>}, n \in NumberLiterals,
       post \in {<< >>, <<"\n">>, <<" ", "\n">>} :
        LET k == IF pre = <<"#">> THEN 2 ELSE 1
        IN  (source = pre \o n \o post /\ lexState = "lexing")
            => /\ \A j \in 1 .. Len(tokens) : tokens[j].name # "ILLEGAL"
               /\ Len(tokens) >= k
                    => tokens[k].name = "NUMBER" /\ tokens[k].literal = n
               /\ TokensNamed("NUMBER") <= 1

-----------------------------------------------------------------------------
(* Properties of the numeric literals, checked under SpecNum *)

\* The digits in the order of their values, and the value of a digit character
\* (either case), -1 if it is none.
DigitChars ==
    <<"0", "1", "2", "3", "4", "5", "6", "7", "8", "9", "A", "B", "C", "D", "E", "F">>
LowerDigitChars ==
    <<"0", "1", "2", "3", "4", "5", "6", "7", "8", "9", "a", "b", "c", "d", "e", "f">>
DigitOf(c) ==
    IF \E i \in 1 .. 16 : DigitChars[i] = c \/ LowerDigitChars[i] = c
    THEN (CHOOSE i \in 1 .. 16 : DigitChars[i] = c \/ LowerDigitChars[i] = c) - 1
    ELSE -1

\* The value of a non-empty string of digits of the radix, -1 if s is not one.
RECURSIVE Numeral(_, _)
Numeral(s, radix) ==
    IF s = << >> THEN -1
    ELSE LET d == DigitOf(s[Len(s)])
             front == SubSeq(s, 1, Len(s) - 1)
         IN  IF d < 0 \/ d >= radix THEN -1
             ELSE IF front = << >> THEN d
             ELSE IF Numeral(front, radix) < 0 THEN -1
             ELSE Numeral(front, radix) * radix + d

\* The value the three literal forms stand for, -1 when the digit string is
\* malformed or the value is above 65535.
LiteralValue(l) ==
    LET v == IF l # << >> /\ l[1] = "!" THEN Numeral(Tail(l), 16)
             ELSE IF Len(l) >= 2 /\ l[1] = "0" /\ l[2] = "x" THEN Numeral(Tail(Tail(l)), 16)
             ELSE Numeral(l, 10)
    IN  IF v > 65535 THEN -1 ELSE v

\* C21: parse_u16 maps a decimal digit string to its decimal value and a
\* 0x-prefixed or !-prefixed string to the value of the hex digits after the
\* prefix ("123", "0x7B" and "!7B" all give 0x7B); a value above 65535 or a
\* malformed digit string gives no value, not a truncated one. Seen at JMPA n:
\* the operand bytes are the value, or the statement is rejected and appends
\* nothing.
C21_ParseU16 ==
    /\ LiteralValue(<<"1", "2", "3">>) = 123
    /\ LiteralValue(<<"0", "x", "7", "B">>) = 123
    /\ LiteralValue(<<"!", "7", "B">>) = 123
    /\ (AfterStmt /\ Name(1) = "JMPA" /\ Name(2) = "NUMBER") =>
          LET v == LiteralValue(stmt[2].literal)
          IN  IF v < 0
              THEN asmState = "parse_err" /\ perr = "InvalidCode" /\ Appended = << >>
              ELSE asmState = "parsing" /\ Appended = <<JMPA, v \div 256, v % 256>>

-----------------------------------------------------------------------------
(* Further properties of the lexer, checked under SpecLex *)

\* C22: Lexer::next never signals the end of the stream: every call returns a
\* token, and once the source is exhausted every call from then on returns an
\* EOF token: no call fails to return, and no token follows an EOF token but
\* another EOF token.
C22_EofForever ==
    /\ lexState = "lexing"
    /\ \A k \in 1 .. Len(tokens) :
          tokens[k].name = "EOF" => \A j \in k .. Len(tokens) : tokens[j].name = "EOF"

\* The source begins with a register, and the first call of next is over.
RegisterFirst ==
    /\ Len(source) >= 2
    /\ source[1] = "%"
    /\ (tokens # << >> \/ lexState \in {"hung", "panicked"})

\* The source says %SP.
NamesSP == Len(source) >= 3 /\ source[2] = "S" /\ source[3] = "P"

\* Where the character after the register is in the source.
AfterRegister == IF NamesSP THEN 4 ELSE 3

\* The token a one-character token's byte gives.
NameOfByte(b) ==
    CASE b = "," -> "COMMA"
      [] b = "\n" -> "END_INST"
      [] OTHER -> "REGISTER"

\* C28: % followed by the two characters SP lexes as one REGISTER token with
\* literal "SP"; % followed by any other character c lexes as one REGISTER
\* token whose literal is the single character c; the character after the
\* register is not consumed: it begins the next token.
C28_Registers ==
    RegisterFirst =>
        /\ tokens # << >>
        /\ tokens[1].name = "REGISTER"
        /\ tokens[1].literal = IF NamesSP THEN <<"S", "P">> ELSE <<source[2]>>
        /\ (Len(tokens) >= 2 /\ Len(source) >= AfterRegister
               /\ source[AfterRegister] \in {",", "\n", "%"})
              => tokens[2].name = NameOfByte(source[AfterRegister])

-----------------------------------------------------------------------------
(* Properties of labels, checked under SpecLink *)

\* The last statement was a LABEL directive.
LabelDeclared == AfterStmt /\ Name(1) = "LABEL"

\* The label table with name at address a.
Declared(labels, name, a) ==
    [n \in (DOMAIN labels) \cup {name} |-> IF n = name THEN a ELSE labels[n]]

\* C23: a LABEL directive stores the write cursor of the active region under
\* the label's name in the one table of the program and appends no bytes;
\* declaring a name again replaces its address without error; and when link
\* returns Ok every reference, wherever it was parsed, holds the address the
\* table had for its label at the end of the parse (plus its offset).
C23_Labels ==
    /\ LabelDeclared =>
          /\ asmState = "parsing"
          /\ prog.parts = prestmt.parts
          /\ prog.part_i = prestmt.part_i
          /\ prog.labels = Declared(prestmt.labels, stmt[1].literal, PartBefore.pc)
    /\ asmState = "linked" =>
          /\ prog.labels = prelink.labels
          /\ \A i \in 1 .. Len(prelink.parts) :
                \A o \in DOMAIN prelink.parts[i].link_map :
                    /\ prog.parts[i].bytes[o + 1] = Hi(Target(prelink, i, o))
                    /\ prog.parts[i].bytes[o + 2] = Lo(Target(prelink, i, o))

\* foo is declared, referred to, and declared again at another address; the
\* reference is linked to the second address.
C23_Witness ==
    /\ asmState = "linked"
    /\ stmt = <<Tok("LABEL", Foo)>>
    /\ Foo \in DOMAIN prestmt.labels
    /\ prestmt.labels[Foo] = 0
    /\ prog.labels[Foo] = 3
    /\ prestmt.parts[1].link_map # << >>
    /\ prog.parts[1].bytes = <<JMPA, 0, 5>>

-----------------------------------------------------------------------------
(* Properties of compile_file, checked under SpecCompile *)

\* The bytes of the sections of an image, one after another.
RECURSIVE ImageBytes(_)
ImageBytes(c) == IF c = << >> THEN << >> ELSE Head(c).code \o ImageBytes(Tail(c))

\* C24: compile_file returns the image got by lexing, parsing, linking and
\* flattening: a source with an instruction yields sections that contain that
\* instruction's bytes (HALT and RTN lines here), and a source with a parse
\* error (a line that begins with a register) yields an error, not an image.
C24_CompileFile ==
    (compiled # << >>) =>
        /\ source = <<"H", "A", "L", "T", "\n">> =>
              compiled.res = "ok" /\ ImageBytes(compiled.code) = <<HALT>>
        /\ source = <<"R", "T", "N", "\n">> =>
              compiled.res = "ok" /\ ImageBytes(compiled.code) = <<RTN>>
        /\ source = <<"%", "A", "\n">> => compiled.res = "err"

-----------------------------------------------------------------------------
\* The format strings that have a placeholder for a source line.
LineFormats ==
    {parse_err.msg, token_err.msg, tokens_err.msg, unknown_token_err.msg}

\* C25: every error returned by parsing or linking carries the source line of
\* the offending token or reference: the message of a statement's error, of
\* the overlapping-regions validation error and of the undefined-label link
\* error each has a line in it.
C25_ErrorLines ==
    asmState \in {"parse_err", "invalid", "link_err"} => errmsg \in LineFormats

-----------------------------------------------------------------------------
\* enum OpCode in the order of its variants (opcodes.rs:3-53).
OpCodeList ==
    <<NOOP, ADDA, ADDI, ADDR, ANDA, ANDI, ANDR, ORA, ORI, ORR, XORA, XORI, XORR,
      ROTR, ROTL, CALLA, CALLR, RTN, HALT, JMP, JMPA, LDSPA, LDSPI, LDSPR,
      LOADA, LOADI, LOADR, STRA, STRR, XFER, POP, PUSH, DEBUG, End>>

\* What the claim gives for a byte: the variant at position b for b in 0..32,
\* NOOP for b greater than End, nothing for b = End.
Converted(b) ==
    IF b <= 32 THEN {OpCodeList[b + 1]}
    ELSE IF b > End THEN {NOOP}
    ELSE Byte

\* C26: OpCode::from(b) is, for every byte b from 0 to 32, the opcode whose
\* position in the OpCode enumeration is b (2 gives ADDI), and NOOP for every
\* byte b greater than the End marker (255 gives NOOP): so of every byte, and
\* so of the byte run fetched and the opcode it decoded it to.
C26_OpCodeFrom ==
    /\ \A b \in Byte : OpCodeFrom(b) \in Converted(b)
    /\ OpCodeFrom(2) = ADDI
    /\ OpCodeFrom(255) = NOOP
    /\ fetched # -1 => opcode \in Converted(fetched)

\* run fetched the byte 255 and decoded it to NOOP.
C26_Witness ==
    /\ image = <<[org |-> 0, code |-> <<255>>]>>
    /\ steps = 1
    /\ fetched = 255
    /\ opcode = NOOP
    /\ pc = 1

-----------------------------------------------------------------------------
(* Properties of the S-record checksum, checked under SpecSrec *)

\* The sum of the w low-order bytes of an address.
RECURSIVE AddressSum(_, _)
AddressSum(a, w) == IF w = 0 THEN 0 ELSE AddressByte(a, w - 1) + AddressSum(a, w - 1)

\* The complement of the low 8 bits of (byte count + the w address bytes + the
\* data bytes), with byte count = data length + w + 1.
Complement(l, w) ==
    255 - ((Len(l.data) + w + 1 + AddressSum(l.address, w) + SumBytes(l.data)) % 256)

\* C27: for every record type with an address width of 2, 3 or 4 bytes, every
\* address and all data, gen_checksum returns the bitwise complement of the low
\* 8 bits of (byte count + every address byte of that width + every data
\* byte), byte count being data length + address width + 1; 24-bit count
\* records are among them.
C27_Checksum ==
    (record.state \in {"done", "panicked"} /\ AddressLen(record.rec_type) \in {2, 3, 4})
        => /\ record.state = "done"
           /\ record.checksum = Complement(record, AddressLen(record.rec_type))

-----------------------------------------------------------------------------
(* Properties of assembled programs that are run, checked under SpecRun *)

\* The bytes of the program, which has one region at origin 0.
Emitted == prog.parts[1].bytes

\* run has gone through k iterations on an assembled program.
Ran(k) == asmState = "linked" /\ vmState \notin {"new", "loaded"} /\ steps = k

\* C29: every opcode the parser can emit has a defined effect in run: the
\* instruction a program begins with, NOOP included, never ends the run with
\* the unknown-opcode fault, and NOOP changes nothing but PC, which goes up
\* by 1.
C29_DefinedEffect ==
    Ran(1) =>
        /\ vmState # "faulted"
        /\ fetched = NOOP =>
              /\ vmState = "running"
              /\ pc = 1
              /\ sp = 0
              /\ registers = [i \in 0..(NUM_OF_REGISTERS - 1) |-> 0]
              /\ memory = InstallSections([a \in {} |-> 0], image, 1).mem
              /\ output = << >>
              /\ printer = << >>

\* The length the claim gives the instruction of an opcode: 1 for the
\* instructions without operand, 2 for PUSH, POP, CALLR and LDSPR, 3 for the
\* register forms, XFER, ROTR, ROTL, JMPA, CALLA, LDSPI and LDSPA, 4 for the
\* address and immediate forms and JMP.
ClaimedLength(op) ==
    CASE op \in {HALT, RTN, DEBUG, NOOP} -> 1
      [] op \in {PUSH, POP, CALLR, LDSPR} -> 2
      [] op \in {LOADR, STRR, ADDR, ORR, ANDR, XORR, XFER, ROTR, ROTL, JMPA, CALLA,
                 LDSPI, LDSPA} -> 3
      [] OTHER -> 4

\* The opcodes after which run does not go on with the next instruction.
Transfers == {JMP, JMPA, CALLA, CALLR, RTN, HALT, NOOP}

\* The address after the first k instructions of bytes, by the lengths above;
\* -1 if there are fewer than k.
RECURSIVE Boundary(_, _)
Boundary(bytes, k) ==
    IF k = 0 THEN 0
    ELSE IF Boundary(bytes, k - 1) = -1 \/ Boundary(bytes, k - 1) >= Len(bytes) THEN -1
    ELSE Boundary(bytes, k - 1) + ClaimedLength(bytes[Boundary(bytes, k - 1) + 1])

\* The opcode of the k-th instruction of bytes.
OpcodeAt(bytes, k) == bytes[Boundary(bytes, k - 1) + 1]

\* The first k instructions of bytes are there and none of them is a transfer.
StraightLine(bytes, k) ==
    /\ Boundary(bytes, k) # -1
    /\ \A j \in 1..k : OpcodeAt(bytes, j) \notin Transfers

\* The 16-bit value in the last two bytes of the first instruction.
FirstAddress == Emitted[Boundary(Emitted, 1) - 1] * 256 + Emitted[Boundary(Emitted, 1)]

-----------------------------------------------------------------------------
(* Further properties of the parser, checked under SpecAsm *)

\* The pending link at offset o of a region lies on two zero bytes of the
\* region's buffer (bytes are counted from 0 in the code, from 1 here).
OnPlaceholder(part, o) ==
    /\ o + 1 < Len(part.bytes)
    /\ part.bytes[o + 1] = 0
    /\ part.bytes[o + 2] = 0

\* C31: at the end of every successful parse each pending link of each region
\* has an offset o with o + 1 smaller than the region's byte count, and the
\* bytes at o and o + 1 are two zero placeholder bytes; this holds for every
\* instruction that takes an IDENT operand, ROTR and ROTL included.
C31_LinksOnPlaceholders ==
    asmState = "parsed" =>
        \A i \in 1..Len(prog.parts) :
            \A o \in DOMAIN prog.parts[i].link_map : OnPlaceholder(prog.parts[i], o)

\* The statement is a ROTR or ROTL whose tokens after the mnemonic begin with
\* a register parse_register accepts, the # marker and a 16-bit number.
RotateWritten ==
    /\ AfterStmt
    /\ Name(1) \in {"ROTR", "ROTL"}
    /\ Len(stmt) >= 4
    /\ parse_register(stmt[2]).ok
    /\ Name(3) = "IMMEDIATE"
    /\ Name(4) = "NUMBER"
    /\ parse_u16(stmt[4].literal).ok

\* C32: ROTR and ROTL accept the token sequence REGISTER r, IMMEDIATE, NUMBER n:
\* for n at most 255 exactly the three bytes [opcode, r, n] are appended, and
\* for n above 255 the statement is rejected with an error.
C32_RotateOperands ==
    RotateWritten =>
        IF parse_u16(stmt[4].literal).val <= 255
        THEN /\ asmState = "parsing"
             /\ Appended = <<Opcode1(Name(1)), parse_register(stmt[2]).val,
                             parse_u16(stmt[4].literal).val>>
        ELSE /\ asmState = "parse_err"
             /\ Appended = << >>

-----------------------------------------------------------------------------
(* Properties of lines of source, checked under SpecLine *)

\* The first statement read the tokens of the source, in order.
ReadFromSource ==
    /\ nstmts = 1
    /\ Len(stmt) <= Len(SourceTokens)
    /\ \A k \in 1..Len(stmt) : stmt[k] = SourceTokens[k]

\* The instruction written on the line.
LineOf == CHOOSE l \in Lines : source \in {l.text \o LineEnd, l.text \o CommentEnd}

Commented == source = LineOf.text \o CommentEnd

\* C33: a ; comment after a complete instruction on the same line does not
\* change what is assembled: the line with the comment appends the same bytes
\* as the line without it and returns no error, for every mnemonic.
C33_CommentAfterInstruction ==
    (AfterStmt /\ ReadFromSource) =>
        /\ asmState = "parsing"
        /\ Appended = LineOf.bytes

-----------------------------------------------------------------------------
(* Termination of the lexer, checked under SpecLex *)

\* C34: every call of Lexer::next returns a token after reading finitely many
\* bytes, for every finite source, a source with an unclosed string literal
\* included: no call fails to return, and once more calls have returned than
\* the source has bytes the last token returned is EOF.
C34_NextTerminates ==
    /\ lexState # "hung"
    /\ Len(tokens) > Len(source) => tokens[Len(tokens)].name = "EOF"

-----------------------------------------------------------------------------
(* The regions of a program while it is parsed, checked under SpecLink *)

\* The write cursor of every region is its origin plus the length of its buffer.
CursorsFollow ==
    \A i \in 1..Len(prog.parts) :
        prog.parts[i].pc = Wrap16(prog.parts[i].start_pc + Len(prog.parts[i].bytes))

\* The statement just parsed is an ORG that returned Ok.
OrgParsed == AfterStmt /\ asmState = "parsing" /\ Name(1) = "ORG"

\* A step of the parser: an ORG that returns Ok appends an empty region at its
\* operand and makes it the active one; any other step keeps the regions and
\* the active one; no step changes a region that is not the active one.
RegionStep ==
    (asmState = "parsing" /\ asmState' \in {"parsing", "parse_err", "panicked"}) =>
        /\ \A i \in 1..Len(prog.parts) :
              i # prog.part_i => prog'.parts[i] = prog.parts[i]
        /\ IF nstmts' = nstmts + 1 /\ OrgParsed'
           THEN /\ prog'.parts = Append(prog.parts, CodePartNew(parse_u16(stmt'[2].literal).val))
                /\ prog'.part_i = Len(prog'.parts)
           ELSE /\ Len(prog'.parts) = Len(prog.parts)
                /\ prog'.part_i = prog.part_i

\* C35: after any sequence of parser operations every region has write cursor
\* = (origin + bytes in its buffer) mod 65536; ORG appends a new empty region
\* at the given origin and makes it the active one; only the active region
\* changes afterwards, and the regions opened earlier are not written again
\* during parsing.
C35_Regions == [](CursorsFollow) /\ [][RegionStep]_vars

\* A program of two regions: the first was written before the ORG, the second
\* after it, and the second's cursor has wrapped past 65535.
C35_Witness ==
    /\ asmState = "parsing"
    /\ Len(prog.parts) = 2
    /\ prog.part_i = 2
    /\ prog.parts[1].bytes # << >>
    /\ prog.parts[2].start_pc = 65534
    /\ Len(prog.parts[2].bytes) = 3
    /\ prog.parts[2].pc = 1

-----------------------------------------------------------------------------
(* Operands that name the write cursor, checked under SpecHere *)

\* The place of the first + or - of a literal, 0 if it has none.
FirstSign(lit) ==
    IF \E i \in 1..Len(lit) : lit[i] \in {"+", "-"}
    THEN CHOOSE i \in 1..Len(lit) :
            lit[i] \in {"+", "-"} /\ \A j \in 1..(i - 1) : lit[j] \notin {"+", "-"}
    ELSE 0

\* The label and the signed decimal offset a literal is made of: [label, offset, ok].
LabelAndOffset(lit) ==
    IF FirstSign(lit) = 0 THEN [label |-> lit, offset |-> 0, ok |-> TRUE]
    ELSE [label |-> SubSeq(lit, 1, FirstSign(lit) - 1),
          offset |-> ParseI16(SubSeq(lit, FirstSign(lit), Len(lit))).val,
          ok |-> ParseI16(SubSeq(lit, FirstSign(lit), Len(lit))).ok]

\* The statement is a JMPA whose operand is $ with or without an offset.
HereOperand ==
    /\ AfterStmt /\ Name(1) = "JMPA" /\ Name(2) = "IDENT"
    /\ LabelAndOffset(stmt[2].literal).ok
    /\ LabelAndOffset(stmt[2].literal).label = <<"$">>

HereValue == (PartBefore.pc + LabelAndOffset(stmt[2].literal).offset) % 65536

\* C36: an IDENT operand is split at its first + or - into a label and a signed
\* decimal offset; when the label is $ the operand resolves at parse time to
\* (write cursor of the active region before the instruction's bytes + offset)
\* mod 65536, for positive and negative offsets, and no link is recorded.
C36_HereResolves ==
    HereOperand =>
        /\ asmState = "parsing"
        /\ Appended = <<JMPA, Hi(HereValue), Lo(HereValue)>>
        /\ PartAfter.link_map = PartBefore.link_map

-----------------------------------------------------------------------------
(* The LOAD instructions and the paired registers, checked under SpecVM *)

\* The registers with register r, single or paired, holding what it keeps of v.
WithReg(regs, r, v) ==
    IF r \in REG_A .. REG_D THEN WithPair(regs, r, v) ELSE [regs EXCEPT ![r] = v % 256]

\* The second operand byte of a two-register instruction at pc.
SourceReg == MemAt(memory, (pc + 2) % 65536)

\* The address a LOADA or LOADR at pc reads from.
LoadAddress(op) == IF op = LOADA THEN Operand16 ELSE RegValue(registers, SourceReg)

\* The value a LOAD at pc hands its destination.
Loaded(op) ==
    IF op = LOADI THEN Operand16 ELSE MemValue(memory, Width(Operand1), LoadAddress(op))

\* The iteration carries out a LOAD whose operands name registers and whose
\* address has a cell for each byte read.
LoadStep ==
    (/\ vmState = "running" /\ fetched' \in {LOADI, LOADA, LOADR} /\ vmState' # "exited"
     /\ Operand1 <= 13 /\ pc <= 65531
     /\ fetched' = LOADR => SourceReg <= 13
     /\ fetched' # LOADI => LoadAddress(fetched') + Width(Operand1) <= 65536)
    => /\ vmState' = "running"
       /\ registers' = WithReg(registers, Operand1, Loaded(fetched'))
       /\ sp' = sp
       /\ \A a \in (DOMAIN memory \cup DOMAIN memory') \ {PRINTER_ADDR} :
             MemAt(memory', a) = MemAt(memory, a)
       /\ pc' = pc + (IF fetched' = LOADR THEN 3 ELSE 4)

PairSlot(r) ==
    CASE r = REG_A -> 2
      [] r = REG_B -> 4
      [] r = REG_C -> 6
      [] r = REG_D -> 8

PairValues == {0, 255, 256, 16706, 65535}

\* Reading a pair gives the combination of its two slots; writing it sets its
\* two slots, high byte in the lower index, and no other slot.
PairsAlias ==
    \A r \in REG_A .. REG_D :
        /\ ~read_reg(Machine, r).trap
        /\ read_reg(Machine, r).val = registers[PairSlot(r)] * 256 + registers[PairSlot(r) + 1]
        /\ \A v \in PairValues :
              /\ ~write_reg(Machine, r, v).trap
              /\ write_reg(Machine, r, v).regs[PairSlot(r)] = v \div 256
              /\ write_reg(Machine, r, v).regs[PairSlot(r) + 1] = v % 256
              /\ \A i \in (0 .. (NUM_OF_REGISTERS - 1)) \ {PairSlot(r), PairSlot(r) + 1} :
                    write_reg(Machine, r, v).regs[i] = registers[i]
              /\ read_reg(write_reg(Machine, r, v), r).val = v

\* The opcodes that write their first operand, a register.
RegisterWriters ==
    {LOADI, LOADA, LOADR, XFER, ADDI, ADDA, ADDR, ORI, ORA, ORR, ANDI, ANDA, ANDR,
     XORI, XORA, XORR, ROTR, ROTL, POP}

\* The iteration carries out an instruction whose destination is a pair: the
\* eight slots that are not the pair's are as they were.
PairedWriteStep ==
    (vmState = "running" /\ fetched' \in RegisterWriters /\ Operand1 \in REG_A .. REG_D)
    => \A i \in (0 .. (NUM_OF_REGISTERS - 1)) \ {PairSlot(Operand1), PairSlot(Operand1) + 1} :
          registers'[i] = registers[i]

\* C38: registers A, B, C, D alias slots 2..9 of the register array: reading
\* one returns regs[2]*256+regs[3], regs[4]*256+regs[5], regs[6]*256+regs[7],
\* regs[8]*256+regs[9]; writing one sets exactly its two slots, high byte in
\* the lower index, and leaves the other eight unchanged, so registers 0 and 1
\* are never changed by a paired-register write; after any instruction sequence
\* a pair's value is the combination of its two slots.
C38_PairedRegisters == [](PairsAlias) /\ [][PairedWriteStep]_vars

\* POP %D has written slots 8 and 9 while slots 2 and 3 hold what was pushed.
C38_Witness ==
    /\ vmState = "running" /\ fetched = POP
    /\ OneSection /\ \E s \in StackTops : Code = PushPop(s, REG_A, REG_D, 16706)
    /\ registers[8] = 65 /\ registers[9] = 66
    /\ registers[2] = 65 /\ registers[3] = 66
    /\ registers[0] = 0 /\ registers[1] = 0

\* The iteration carries out DEBUG, and the operator does not end the process
\* at the prompt.
DebugStep ==
    (vmState = "running" /\ fetched' = DEBUG /\ vmState' # "exited" /\ pc <= 65534)
    => /\ vmState' = "running"
       /\ pc' = pc + 1
       /\ UNCHANGED <<registers, memory, sp, printer, output>>

\* C39: executing the DEBUG opcode changes no register, memory cell, SP,
\* printer buffer or output and advances PC by exactly 1, so that the
\* instructions after it act as if it had not been executed.
C39_DebugChangesNothing == [][DebugStep]_vars

-----------------------------------------------------------------------------
(* The data directives, checked under SpecData *)

\* The statement read n items: item k is token 2k and what follows it token 2k + 1.
ItemAt(k) == stmt[2 * k]
ItemsRead == Len(stmt) \div 2

\* The statement is a list of n items with a comma between each two and
\* END_INST after the last.
ListOf(n) ==
    /\ n >= 1 /\ Len(stmt) = 2 * n + 1
    /\ \A k \in 1..(n - 1) : Name(2 * k + 1) = "COMMA"
    /\ Name(2 * n + 1) = "END_INST"

\* A byte item: a number of at most 255, or a string.
ByteItem(t) ==
    \/ t.name = "STRING"
    \/ t.name = "NUMBER" /\ parse_u16(t.literal).ok /\ parse_u16(t.literal).val <= 255

BytesOfItem(t) ==
    IF t.name = "STRING" THEN AsBytes(t.literal) ELSE <<parse_u16(t.literal).val>>

\* A word item: a number, or a label with or without an offset.
LabelItem(t) ==
    /\ t.name = "IDENT" /\ LabelAndOffset(t.literal).ok
    /\ LabelAndOffset(t.literal).label # <<"$">>
WordItem(t) ==
    \/ t.name = "NUMBER" /\ parse_u16(t.literal).ok
    \/ LabelItem(t)

WordOfItem(t) ==
    IF t.name = "NUMBER" THEN <<Hi(parse_u16(t.literal).val), Lo(parse_u16(t.literal).val)>>
    ELSE <<0, 0>>

\* The bytes of items k..n of the list.
RECURSIVE BytesFrom(_, _, _)
BytesFrom(k, n, fdb) ==
    IF k > n THEN << >>
    ELSE (IF fdb THEN WordOfItem(ItemAt(k)) ELSE BytesOfItem(ItemAt(k))) \o BytesFrom(k + 1, n, fdb)

\* The offset in the region of the word of item k of an FDB list.
WordOffset(k) == Len(PartBefore.bytes) + 2 * (k - 1)

\* The links an FDB list of n items records: one per label item, at its word.
LinksOfList(n) ==
    /\ DOMAIN PartAfter.link_map =
          DOMAIN PartBefore.link_map \cup {WordOffset(k) : k \in {j \in 1..n : LabelItem(ItemAt(j))}}
    /\ \A k \in 1..n :
          LabelItem(ItemAt(k)) =>
              PartAfter.link_map[WordOffset(k)] =
                  [label |-> LabelAndOffset(ItemAt(k).literal).label,
                   offset |-> LabelAndOffset(ItemAt(k).literal).offset]

FcbList ==
    (AfterStmt /\ Name(1) = "FCB" /\ ListOf(ItemsRead)
        /\ \A k \in 1..ItemsRead : ByteItem(ItemAt(k)))
    => /\ asmState = "parsing"
       /\ Appended = BytesFrom(1, ItemsRead, FALSE)
       /\ PartAfter.link_map = PartBefore.link_map

FcbRejects ==
    (AfterStmt /\ Name(1) = "FCB"
        /\ \E k \in 1..ItemsRead :
              /\ ItemAt(k).name = "NUMBER"
              /\ parse_u16(ItemAt(k).literal).ok /\ parse_u16(ItemAt(k).literal).val > 255)
    => asmState = "parse_err" /\ perr = "InvalidCode"

FdbList ==
    (AfterStmt /\ Name(1) = "FDB" /\ ListOf(ItemsRead)
        /\ \A k \in 1..ItemsRead : WordItem(ItemAt(k)))
    => /\ asmState = "parsing"
       /\ Appended = BytesFrom(1, ItemsRead, TRUE)
       /\ LinksOfList(ItemsRead)

FdbRejects ==
    (AfterStmt /\ Name(1) = "FDB" /\ \E k \in 1..ItemsRead : ItemAt(k).name = "STRING")
    => asmState = "parse_err" /\ perr = "InvalidCode"

MissingComma ==
    (AfterStmt /\ Name(1) \in {"FCB", "FDB"}
        /\ \E k \in 1..ItemsRead :
              2 * k + 1 <= Len(stmt) /\ Name(2 * k + 1) \notin {"COMMA", "END_INST"})
    => asmState = "parse_err" /\ perr = "ExpectedToken"

RmbZeros ==
    (AfterStmt /\ Name(1) = "RMB" /\ Name(2) = "NUMBER" /\ parse_u16(stmt[2].literal).ok)
    => /\ asmState = "parsing"
       /\ Appended = Zeros(parse_u16(stmt[2].literal).val)

\* C40: over a comma-separated item list ended by END_INST, FCB appends one
\* byte for each numeric item of at most 255 and the raw bytes of each string
\* item and rejects a numeric item above 255; FDB appends two big-endian bytes
\* for each number or label item, a label item recording a pending link at its
\* word's own offset, and rejects every STRING item; RMB n appends exactly n
\* zero bytes; a missing comma between items is an error.
C40_DataDirectives ==
    FcbList /\ FcbRejects /\ FdbList /\ FdbRejects /\ MissingComma /\ RmbZeros

\* FDB foo+2, 300 has appended two words and recorded the link of the first.
C40_Witness ==
    /\ asmState = "parsing" /\ Name(1) = "FDB" /\ ListOf(2)
    /\ stmt[2] = Tok("IDENT", Foo \o <<"+", "2">>)
    /\ stmt[4] = Tok("NUMBER", <<"3", "0", "0">>)
    /\ Appended = <<0, 0, 1, 44>>
    /\ PartAfter.link_map[0] = [label |-> Foo, offset |-> 2]

====
